---- MODULE Spec2Model ----
(***************************************************************************)
(* Delta Chat core: job queue, worker-lane contract and message state      *)
(* machine, as declared and documented in deltachat-ffi/deltachat.h and    *)
(* driven by the worker threads of NativeInteractionManager.               *)
(***************************************************************************)
EXTENDS Integers, Sequences, FiniteSets, TLC

(* ------------------------------------------------------------------ *)
(* Bounds of the model                                                 *)
(* ------------------------------------------------------------------ *)
MaxMsgs == 2

(* ------------------------------------------------------------------ *)
(* Program constants (deltachat.h)                                     *)
(* ------------------------------------------------------------------ *)
DC_CHAT_ID_DEADDROP == 1
DC_CHAT_ID_LAST_SPECIAL == 9

DC_CONTACT_ID_SELF == 1
DC_CONTACT_ID_LAST_SPECIAL == 9

DC_STATE_UNDEFINED == 0
DC_STATE_IN_FRESH == 10
DC_STATE_IN_NOTICED == 13
DC_STATE_IN_SEEN == 16
DC_STATE_OUT_PREPARING == 18
DC_STATE_OUT_DRAFT == 19
DC_STATE_OUT_PENDING == 20
DC_STATE_OUT_FAILED == 24
DC_STATE_OUT_DELIVERED == 26
DC_STATE_OUT_MDN_RCVD == 28

DC_EVENT_INCOMING_MSG == 2005
DC_EVENT_MSG_DELIVERED == 2010
DC_EVENT_MSG_FAILED == 2012
DC_EVENT_MSG_READ == 2015

(* The event of an action that cannot be performed without network. *)
DC_EVENT_ERROR_NETWORK == 401

(* Number of threads created for a lane, and of calls of start() and stop()
   after the constructor's. *)
MaxGen == 2
MaxCalls == 2

(* Number of lifecycle callbacks ForegroundDetector receives. *)
MaxCallbacks == 6

(* Number of method calls that arrive at handleContextCalls. *)
MaxMethodCalls == 2

(* Number of jobs inserted in a run in which taking a job and finishing it are
   separate steps. *)
MaxJobs == 4

(* Number of times the database is closed and opened again in a run. *)
MaxReopens == 1

(* Number of actions that need the network in a run. *)
MaxActions == 7

(* dc_lot_t::state of the lot dc_check_qr returns. *)
DC_QR_ASK_VERIFYCONTACT == 200
DC_QR_ASK_VERIFYGROUP == 202
DC_QR_FPR_OK == 210
DC_QR_FPR_MISMATCH == 220
DC_QR_FPR_WITHOUT_ADDR == 230
DC_QR_ADDR == 320
DC_QR_TEXT == 330
DC_QR_URL == 332
DC_QR_ERROR == 400

(* data1 of the progress events of dc_configure and dc_imex: error, and success. *)
ProgressError == 0
ProgressDone == 1000

(* data2 of the secure-join progress events of the inviter and of the joiner. *)
InviterRequestReceived == 300
InviterAuthReceived == 600
InviterMemberAddedReceived == 800
InviterFinished == 1000
JoinerAuthSent == 400
JoinerFinished == 1000

(* What the blocking calls return: a setup code, or 0 (NULL, no chat). *)
SetupCode == 1234
NotDone == 0

(* Number of recoverable failures after which a job is given up. *)
RetryCeiling == 2

(* Number of group chats and of status messages of a group. *)
MaxGroups == 1
MaxStatusMsgs == 2

(* Number of ongoing processes a run starts. *)
MaxProcs == 2

MsgIds == 1..MaxMsgs

(* The first id of a real chat; the contact of the single chats, who also sends
   every incoming message, and a second contact for the groups. *)
FirstChatId == DC_CHAT_ID_LAST_SPECIAL + 1
Bob == DC_CONTACT_ID_LAST_SPECIAL + 1
Carol == Bob + 1

(* The client threads that call start() and stop(). *)
Callers == {1, 2}

(* The lanes in the order in which startThreads and stopThreads handle them. *)
LaneOrder == <<"inbox", "mvbox", "sentbox", "smtp">>

(* The chats locations are streamed to: the first two chats. *)
StreamChats == {FirstChatId, FirstChatId + 1}

States ==
  { DC_STATE_UNDEFINED, DC_STATE_IN_FRESH, DC_STATE_IN_NOTICED, DC_STATE_IN_SEEN,
    DC_STATE_OUT_PREPARING, DC_STATE_OUT_DRAFT, DC_STATE_OUT_PENDING,
    DC_STATE_OUT_FAILED, DC_STATE_OUT_DELIVERED, DC_STATE_OUT_MDN_RCVD }

(* The four lanes; only the inbox and the SMTP lane execute jobs. *)
Lanes == {"inbox", "mvbox", "sentbox", "smtp"}
JobLanes == {"inbox", "smtp"}
ImapLanes == {"inbox", "mvbox", "sentbox"}

VARIABLES
  msgs,         \* [MsgIds -> [state, chat_id]]: the message rows
  last_msg_id,  \* the id of the row inserted last (ids are never reused)
  chats,        \* set of chat rows [id, contact_id, archived]
  jobs,         \* the job rows in insertion order: [action, foreign_id, tries,
                \* wait, backoff]; wait is the time left until desired_not_before,
                \* backoff the delay computed at the last failure
  pc,           \* [Lanes -> {"jobs", "fetch", "idle", "none"}]: the call the lane's
                \* thread is in ("none": the lane has no thread)
  flag,         \* [Lanes -> BOOLEAN]: a pending interrupt of the lane's idle
  events,       \* [MsgIds -> Seq([event, data1, data2])]: events raised per message
  sent          \* [MsgIds -> Nat]: how often the SMTP lane handed the message over

vars == <<msgs, last_msg_id, chats, jobs, pc, flag, events, sent>>

VARIABLES
  groups,       \* set of group rows [id, members, unpromoted, name, image,
                \* status_msgs]; status_msgs counts the status messages the group's
                \* edits handed over for sending
  ongoing,      \* [kind, stop]: the one ongoing process and its stop signal
  reports,      \* Seq([kind, value]): what the ended ongoing processes reported
  call,         \* [kind, msg]: the blocking call the client's thread is in and
                \* the message it waits for; kind "none" if it is in no such call
  inviter,      \* [proto, progress]: the secure-join handshake with a joining
                \* contact and the inviter progress events raised in it
  joiner,       \* [proto, step, progress]: the handshake of dc_join_securejoin and
                \* the joiner progress events raised in it
  sender,       \* [MsgIds -> contact id]: from_id of the incoming messages, 0 for
                \* the other rows
  times,        \* [MsgIds -> [sent, rcvd, sort]]: timestamp_sent,
                \* timestamp_received and timestamp_sort of the incoming messages
  contacts,     \* set of contact rows [id, addr, name, origin]
  now,          \* the time in seconds
  send_until,   \* [chat id -> time]: the time until which locations are sent to
                \* the chat, 0 if location streaming is disabled
  located,      \* [called, still]: whether dc_set_location was called and what
                \* the last call returned
  reopened,     \* [count, failed]: how often the database was closed and opened
                \* again, and the messages that were failed at the last time
  log_connect_errors, \* whether the next network error is the first of a sequence
  net_log,      \* Seq([ok, event, data1]): the actions that needed the network,
                \* with the event raised by those that failed (event 0 if none)
  thread_field, \* [Lanes -> 0..MaxGen]: the fields imapThread, mvboxThread,
                \* sentBoxThread, smtpThread (0: null), a thread being named by
                \* its lane and the number of its creation
  thread_state, \* [Lanes -> [1..MaxGen -> [at, interrupted]]]: where the thread is:
                \* "new" (not created), "top" (the check at the top of its
                \* loop), "jobs", "fetch", "idle" (inside that call), "dead"
                \* (returned); and its interruption flag
  callers,      \* [Callers -> [op, lane, seen]]: the call of start() or stop() a
                \* client thread is in ("none" if in neither), the position of
                \* the lane it handles next, and the fields as they were when
                \* its start() began
  called,       \* Seq([op, alone]): the calls of start() and stop() begun so
                \* far, and whether no other call was running when it began
  activityCounter, \* the field activityCounter of ForegroundDetector (a Java int)
  lifecycle,    \* Seq([callback, notified, counter]): the lifecycle callbacks
                \* ForegroundDetector received, each with the calls it made on
                \* its listener and the counter it left
  method_calls, \* Seq([method, arguments, value, results, crashed]): the method
                \* calls handleContextCalls received, each with the value
                \* of the configuration read, the invocations of the Flutter
                \* result callback in their order, and whether the app ended
  work,         \* [queue, running, deleted]: the job rows [id, lane] in insertion
                \* order, the id of the job each job lane has in progress (0 if
                \* none), and the ids of the deleted rows in the order of deletion
  verified_ids, \* [chats, contacts]: the ids of the verified groups and of the
                \* verified contacts
  lot,          \* the lot the last dc_check_qr returned, as a sequence of at most
                \* one record [state, qr]
  stream_log    \* [chat id -> [seconds, elapsed]]: the seconds given in the last
                \* dc_send_locations_to_chat of the chat and the seconds elapsed
                \* since that call

group_vars == <<groups>>
proc_vars == <<ongoing, reports, call>>
join_vars == <<inviter, joiner>>
msg_vars == <<sender, times>>
contact_vars == <<contacts>>
location_vars == <<now, send_until, located, stream_log>>
qr_vars == <<lot>>
net_vars == <<log_connect_errors, net_log>>
restart_vars == <<reopened>>
verify_vars == <<verified_ids>>
work_vars == <<work>>
thread_vars == <<thread_field, thread_state, callers, called>>
fg_vars == <<activityCounter, lifecycle>>
flutter_vars == <<method_calls>>
ui_vars == <<fg_vars, flutter_vars>>
ext_vars == <<verify_vars, work_vars, thread_vars, ui_vars>>
old_vars ==
  <<msg_vars, contact_vars, location_vars, qr_vars, net_vars, restart_vars>>
but_threads ==
  <<vars, group_vars, proc_vars, join_vars, old_vars, verify_vars, work_vars,
    ui_vars>>
but_ui ==
  <<vars, group_vars, proc_vars, join_vars, old_vars, verify_vars, work_vars,
    thread_vars>>
but_fg == <<but_ui, flutter_vars>>
but_flutter == <<but_ui, fg_vars>>
rest_vars == <<old_vars, ext_vars>>
but_contacts ==
  <<vars, group_vars, proc_vars, join_vars, msg_vars, location_vars, qr_vars,
    net_vars, restart_vars, ext_vars>>
but_locations ==
  <<vars, group_vars, proc_vars, join_vars, msg_vars, contact_vars, qr_vars,
    net_vars, restart_vars, ext_vars>>
but_qr ==
  <<vars, group_vars, proc_vars, join_vars, msg_vars, contact_vars, location_vars,
    net_vars, restart_vars, ext_vars>>
but_net ==
  <<vars, group_vars, proc_vars, join_vars, msg_vars, contact_vars, location_vars,
    qr_vars, restart_vars, ext_vars>>
others == <<group_vars, proc_vars, join_vars, rest_vars>>
all_vars == <<vars, others>>

(* ------------------------------------------------------------------ *)
(* Store helpers                                                       *)
(* ------------------------------------------------------------------ *)
NoRow == [state |-> DC_STATE_UNDEFINED, chat_id |-> 0]

Rows == {m \in MsgIds : msgs[m].state # DC_STATE_UNDEFINED}

ChatIds == {c.id : c \in chats}

IsRealChat(chat_id) == chat_id > DC_CHAT_ID_LAST_SPECIAL

(* Faulty variant of dc_get_chat_id_by_contact_id: an existing chat is not found. *)
dc_get_chat_id_by_contact_id_NotFound(contact_id) == 0

(* dc_get_chat_id_by_contact_id: the chat with the contact, 0 if there is none. *)
dc_get_chat_id_by_contact_id(contact_id) ==
  IF \E c \in chats : c.contact_id = contact_id
    THEN (CHOOSE c \in chats : c.contact_id = contact_id).id
    ELSE 0

(* dc_get_chatlist without flags: the unarchived chats (special entries left out). *)
dc_get_chatlist == {c.id : c \in {d \in chats : ~d.archived}}

(* The job rows of a lane: sending is done by the SMTP lane, the rest by the inbox. *)
JobLane(action) == IF action \in {"send_msg", "send_mdn"} THEN "smtp" ELSE "inbox"

NewJob(action, foreign_id) ==
  [action |-> action, foreign_id |-> foreign_id, tries |-> 0, wait |-> 0,
   backoff |-> 0]

Event(event, chat_id, m) == [event |-> event, data1 |-> chat_id, data2 |-> m]

(* Faulty variant of NoticedState: every incoming message that is not noticed becomes so. *)
NoticedState_AlsoSeen(state) ==
  IF state \in {DC_STATE_IN_FRESH, DC_STATE_IN_SEEN} THEN DC_STATE_IN_NOTICED ELSE state

(* Faulty variant of NoticedState: a fresh message becomes seen at once. *)
NoticedState_Seen(state) ==
  IF state = DC_STATE_IN_FRESH THEN DC_STATE_IN_SEEN ELSE state

(* The state a fresh message gets when its chat or contact is marked noticed. *)
NoticedState(state) ==
  IF state = DC_STATE_IN_FRESH THEN DC_STATE_IN_NOTICED ELSE state

(* Faulty variant of SeenState: a call moves a message one state forward only. *)
SeenState_OneStep(state, chat_id) ==
  IF state = DC_STATE_IN_FRESH THEN DC_STATE_IN_NOTICED
  ELSE IF state = DC_STATE_IN_NOTICED /\ IsRealChat(chat_id) THEN DC_STATE_IN_SEEN
  ELSE state

(* Faulty variant of SeenState: contact requests become seen like other messages. *)
SeenState_AlsoRequests(state, chat_id) ==
  IF state \in {DC_STATE_IN_FRESH, DC_STATE_IN_NOTICED}
    THEN DC_STATE_IN_SEEN ELSE state

(* The state dc_markseen_msgs gives a message of the given chat. *)
SeenState(state, chat_id) ==
  IF state \in {DC_STATE_IN_FRESH, DC_STATE_IN_NOTICED}
    THEN IF IsRealChat(chat_id) THEN DC_STATE_IN_SEEN ELSE DC_STATE_IN_NOTICED
    ELSE state

(* ------------------------------------------------------------------ *)
(* API calls                                                           *)
(* ------------------------------------------------------------------ *)

(* The pending interrupts after the given lanes were interrupted; the interrupt
   of a lane that has no thread is not recorded, as nobody observes it. *)
Interrupted(lanes) ==
  [l \in Lanes |-> flag[l] \/ (l \in lanes /\ pc[l] # "none")]

(* dc_interrupt_*_idle: the only effect is the lane's pending interrupt. *)

dc_interrupt_idle(lane) ==
  /\ flag' = Interrupted({lane})
  /\ UNCHANGED <<msgs, last_msg_id, chats, jobs, pc, events, sent, others>>

(* dc_create_chat_by_contact_id: reuse the chat with the contact or create one;
   a new chat takes over the contact's messages of the deaddrop. *)
dc_create_chat_by_contact_id(contact_id) ==
  /\ IF dc_get_chat_id_by_contact_id(contact_id) # 0
       THEN UNCHANGED <<chats, msgs>>
       ELSE LET id == FirstChatId + Cardinality(chats) IN
            /\ chats' = chats \cup
                 {[id |-> id, contact_id |-> contact_id, archived |-> FALSE]}
            /\ msgs' = [m \in MsgIds |->
                 IF msgs[m].chat_id = DC_CHAT_ID_DEADDROP /\ sender[m] = contact_id
                   THEN [msgs[m] EXCEPT !.chat_id = id]
                   ELSE msgs[m]]
  /\ UNCHANGED <<last_msg_id, jobs, pc, flag, events, sent, others>>

(* dc_create_chat_by_msg_id: if the message belongs to a chat already, nothing
   is created; else the chat with the contact of the message is reused or
   created, and a new chat takes over the message and the contact's other
   messages of the deaddrop. *)
dc_create_chat_by_msg_id(m) ==
  /\ m \in Rows
  /\ sender[m] # 0
  /\ IF IsRealChat(msgs[m].chat_id)
       THEN UNCHANGED all_vars
       ELSE dc_create_chat_by_contact_id(sender[m])

(* Faulty variant of Promoted: sending a message leaves the group unpromoted. *)
Promoted_Never(gs, chat_id) == gs

(* The group rows after a message was sent to the chat: a group becomes promoted
   with the first call of a sending function. *)
Promoted(gs, chat_id) ==
  {IF g.id = chat_id THEN [g EXCEPT !.unpromoted = FALSE] ELSE g : g \in gs}

(* Faulty variant of SendJobs: the job is inserted twice. *)
SendJobs_Twice(m) == <<NewJob("send_msg", m), NewJob("send_msg", m)>>

(* The jobs dc_send_msg inserts for message m. *)
SendJobs(m) == <<NewJob("send_msg", m)>>

(* Faulty variant of SendInterrupts: the SMTP lane is not interrupted. *)
SendInterrupts_None == {}

(* The lanes dc_send_msg interrupts. *)
SendInterrupts == {"smtp"}

(* dc_send_msg / dc_send_text_msg: a new message, or one prepared before, becomes
   pending; its SMTP job is inserted and the SMTP lane is interrupted. *)
dc_send_msg(chat_id, m) ==
  /\ chat_id \in ChatIds
  /\ \/ /\ m = last_msg_id + 1
        /\ m \in MsgIds
        /\ last_msg_id' = m
        /\ msgs' = [msgs EXCEPT ![m] =
             [state |-> DC_STATE_OUT_PENDING, chat_id |-> chat_id]]
     \/ /\ m \in Rows
        /\ msgs[m].state = DC_STATE_OUT_PREPARING
        /\ msgs[m].chat_id = chat_id
        /\ last_msg_id' = last_msg_id
        /\ msgs' = [msgs EXCEPT ![m].state = DC_STATE_OUT_PENDING]
  /\ jobs' = jobs \o SendJobs(m)
  /\ flag' = Interrupted(SendInterrupts)
  /\ groups' = Promoted(groups, chat_id)
  /\ UNCHANGED <<chats, pc, events, sent, proc_vars, join_vars, rest_vars>>

(* Faulty variant of PrepareJobs: the message is handed over for sending at once. *)
PrepareJobs_Sends(m) == SendJobs(m)

(* The jobs dc_prepare_msg inserts for message m: none, the message is really
   sent once dc_send_msg is called. *)
PrepareJobs(m) == <<>>

(* dc_prepare_msg: the row is inserted while the file is still in creation. *)
dc_prepare_msg(chat_id) ==
  /\ chat_id \in ChatIds
  /\ last_msg_id < MaxMsgs
  /\ last_msg_id' = last_msg_id + 1
  /\ msgs' = [msgs EXCEPT ![last_msg_id + 1] =
       [state |-> DC_STATE_OUT_PREPARING, chat_id |-> chat_id]]
  /\ jobs' = jobs \o PrepareJobs(last_msg_id + 1)
  /\ UNCHANGED <<chats, pc, flag, events, sent, others>>

(* Faulty variant of DraftDeleted: the existing draft is kept. *)
DraftDeleted_Kept(ms, chat_id) == ms

(* The message rows after the existing draft of the chat, if any, was deleted. *)
DraftDeleted(ms, chat_id) ==
  [m \in MsgIds |->
     IF ms[m].chat_id = chat_id /\ ms[m].state = DC_STATE_OUT_DRAFT
       THEN NoRow ELSE ms[m]]

(* dc_set_draft: the chat's draft is deleted; a text message becomes the new one. *)
dc_set_draft(chat_id, is_text) ==
  /\ chat_id \in ChatIds
  /\ LET kept == DraftDeleted(msgs, chat_id)
     IN IF is_text /\ last_msg_id < MaxMsgs
          THEN /\ last_msg_id' = last_msg_id + 1
               /\ msgs' = [kept EXCEPT ![last_msg_id + 1] =
                    [state |-> DC_STATE_OUT_DRAFT, chat_id |-> chat_id]]
          ELSE /\ ~is_text
               /\ last_msg_id' = last_msg_id
               /\ msgs' = kept
  /\ UNCHANGED <<chats, jobs, pc, flag, events, sent, others>>

(* dc_marknoticed_chat: the fresh messages of the chat become noticed. *)
dc_marknoticed_chat(chat_id) ==
  /\ chat_id \in ChatIds
  /\ msgs' = [m \in MsgIds |->
       IF msgs[m].chat_id = chat_id
         THEN [msgs[m] EXCEPT !.state = NoticedState(msgs[m].state)]
         ELSE msgs[m]]
  /\ UNCHANGED <<last_msg_id, chats, jobs, pc, flag, events, sent, others>>

(* dc_marknoticed_contact: the fresh messages sent by the contact become noticed. *)
dc_marknoticed_contact(contact_id) ==
  /\ contact_id > DC_CONTACT_ID_LAST_SPECIAL
  /\ msgs' = [m \in MsgIds |->
       IF sender[m] = contact_id
         THEN [msgs[m] EXCEPT !.state = NoticedState(msgs[m].state)]
         ELSE msgs[m]]
  /\ UNCHANGED <<last_msg_id, chats, jobs, pc, flag, events, sent, others>>

(* The messages of msg_ids that dc_markseen_msgs changes to seen, in id order. *)
RECURSIVE MarkseenJobs(_, _)
MarkseenJobs(msg_ids, m) ==
  IF m > MaxMsgs THEN <<>>
  ELSE (IF /\ m \in msg_ids
           /\ msgs[m].state # SeenState(msgs[m].state, msgs[m].chat_id)
           /\ SeenState(msgs[m].state, msgs[m].chat_id) = DC_STATE_IN_SEEN
          THEN <<NewJob("markseen", m)>> ELSE <<>>)
       \o MarkseenJobs(msg_ids, m + 1)

(* Faulty variant of MarkseenInterrupts: the inbox lane is not interrupted. *)
MarkseenInterrupts_None == {}

(* The lanes dc_markseen_msgs interrupts when it inserted a job. *)
MarkseenInterrupts == {"inbox"}

(* dc_markseen_msgs: messages of real chats become seen and get a job that marks
   them on the server and sends the read receipt; contact requests only become
   noticed. *)
dc_markseen_msgs(msg_ids) ==
  /\ msg_ids # {}
  /\ msg_ids \subseteq Rows
  /\ msgs' = [m \in MsgIds |->
       IF m \in msg_ids
         THEN [msgs[m] EXCEPT !.state = SeenState(msgs[m].state, msgs[m].chat_id)]
         ELSE msgs[m]]
  /\ jobs' = jobs \o MarkseenJobs(msg_ids, 1)
  /\ flag' = IF MarkseenJobs(msg_ids, 1) # <<>>
               THEN Interrupted(MarkseenInterrupts) ELSE flag
  /\ UNCHANGED <<last_msg_id, chats, pc, events, sent, others>>

(* Faulty variant of ArchiveChats: a chat once archived stays archived. *)
ArchiveChats_NeverUnarchives(cs, chat_id, archive) ==
  {IF c.id = chat_id THEN [c EXCEPT !.archived = @ \/ archive] ELSE c : c \in cs}

(* The chat rows after the archived state of the chat was set. *)
ArchiveChats(cs, chat_id, archive) ==
  {IF c.id = chat_id THEN [c EXCEPT !.archived = archive] ELSE c : c \in cs}

(* The message rows after the archived state of the chat was set: messages in
   archived chats are marked as being noticed. *)
ArchiveMsgs(ms, chat_id, archive) ==
  [m \in MsgIds |->
     IF archive /\ ms[m].chat_id = chat_id
       THEN [ms[m] EXCEPT !.state = NoticedState(ms[m].state)]
       ELSE ms[m]]

(* dc_archive_chat: the archived state is set; archiving marks the chat's
   messages as noticed. *)
dc_archive_chat(chat_id, archive) ==
  /\ chat_id \in ChatIds
  /\ chats' = ArchiveChats(chats, chat_id, archive)
  /\ msgs' = ArchiveMsgs(msgs, chat_id, archive)
  /\ UNCHANGED <<last_msg_id, jobs, pc, flag, events, sent, others>>

(* Faulty variant of NetworkRetry: the job keeps waiting out its backoff. *)
NetworkRetry_KeepsWaiting(job) == job

(* The job row after the network signal: its retry is not delayed any longer. *)
NetworkRetry(job) == [job EXCEPT !.wait = 0]

(* dc_maybe_network: all four lanes are interrupted and no job waits any longer. *)
dc_maybe_network ==
  /\ flag' = Interrupted(Lanes)
  /\ jobs' = [i \in 1..Len(jobs) |-> NetworkRetry(jobs[i])]
  /\ UNCHANGED <<msgs, last_msg_id, chats, pc, events, sent, others>>

(* ------------------------------------------------------------------ *)
(* Group chats                                                         *)
(* ------------------------------------------------------------------ *)
Contacts == {Bob, Carol}

Names == {"group", "renamed"}

GroupIds == {g.id : g \in groups}

GroupOf(chat_id) == CHOOSE g \in groups : g.id = chat_id

(* dc_create_group_chat: the new group has the one member SELF, is unpromoted
   and its draft is set to a default text; with verified set it is a verified
   group. *)
CreateGroupChat(is_verified, name) ==
  /\ Cardinality(groups) < MaxGroups
  /\ last_msg_id < MaxMsgs
  /\ LET id == FirstChatId + Cardinality(chats) IN
       /\ chats' = chats \cup {[id |-> id, contact_id |-> 0, archived |-> FALSE]}
       /\ groups' = groups \cup
            {[id |-> id, members |-> {DC_CONTACT_ID_SELF}, unpromoted |-> TRUE,
              name |-> name, image |-> FALSE, status_msgs |-> 0]}
       /\ msgs' = [msgs EXCEPT ![last_msg_id + 1] =
            [state |-> DC_STATE_OUT_DRAFT, chat_id |-> id]]
       /\ verified_ids' = IF is_verified THEN [verified_ids EXCEPT !.chats = @ \cup {id}]
                                           ELSE verified_ids
  /\ last_msg_id' = last_msg_id + 1
  /\ UNCHANGED <<jobs, pc, flag, events, sent, proc_vars, join_vars, old_vars,
                 work_vars, thread_vars, ui_vars>>

(* dc_create_group_chat with verified = 0. *)
dc_create_group_chat(name) == CreateGroupChat(FALSE, name)

(* Faulty variant of StatusMsgs: an edit informs the members of any group. *)
StatusMsgs_Always(g) == 1

(* The status messages an edit of the group sends: one if the group is promoted. *)
StatusMsgs(g) == IF g.unpromoted THEN 0 ELSE 1

(* An edit of a group: the row is changed and, if the group is promoted, all
   members are informed by a status message. *)
EditGroup(chat_id, row) ==
  /\ chat_id \in GroupIds
  /\ row # GroupOf(chat_id)
  /\ GroupOf(chat_id).status_msgs + StatusMsgs(GroupOf(chat_id)) <= MaxStatusMsgs
  /\ groups' = (groups \ {GroupOf(chat_id)}) \cup
       {[row EXCEPT !.status_msgs = @ + StatusMsgs(GroupOf(chat_id))]}
  /\ UNCHANGED <<vars, proc_vars, join_vars, rest_vars>>

(* Faulty variant of MayBeAdded: any contact can be added to any group. *)
MayBeAdded_Anyone(chat_id, contact_id) == TRUE

(* Whether the contact can be added to the group: to a verified group only
   verified contacts can be added. *)
MayBeAdded(chat_id, contact_id) ==
  chat_id \in verified_ids.chats => contact_id \in verified_ids.contacts

(* dc_add_contact_to_chat: the member is added (1), or nothing is changed (0). *)
dc_add_contact_to_chat(chat_id, contact_id) ==
  /\ chat_id \in GroupIds
  /\ IF MayBeAdded(chat_id, contact_id)
       THEN EditGroup(chat_id,
              [GroupOf(chat_id) EXCEPT !.members = @ \cup {contact_id}])
       ELSE UNCHANGED all_vars

dc_remove_contact_from_chat(chat_id, contact_id) ==
  /\ chat_id \in GroupIds
  /\ EditGroup(chat_id, [GroupOf(chat_id) EXCEPT !.members = @ \ {contact_id}])

dc_set_chat_name(chat_id, name) ==
  /\ chat_id \in GroupIds
  /\ EditGroup(chat_id, [GroupOf(chat_id) EXCEPT !.name = name])

dc_set_chat_profile_image(chat_id, image) ==
  /\ chat_id \in GroupIds
  /\ EditGroup(chat_id, [GroupOf(chat_id) EXCEPT !.image = image])

(* ------------------------------------------------------------------ *)
(* Worker loops: perform_jobs, fetch, idle                             *)
(* ------------------------------------------------------------------ *)

(* Faulty variant of FirstCall: every thread begins its round with perform_jobs. *)
FirstCall_Jobs(lane) == "jobs"

(* The first call of a round of the lane's thread (NativeInteractionManager). *)
FirstCall(lane) == IF lane \in JobLanes THEN "jobs" ELSE "fetch"

(* Faulty variant of IdleBlocks: idle blocks whether or not an interrupt is pending. *)
IdleBlocks_Always(lane) == TRUE

(* Whether a call of idle blocks: not when an interrupt is pending. *)
IdleBlocks(lane) == ~flag[lane]

(* The thread calls idle: it blocks, or returns at once to the next round and
   consumes the pending interrupt. *)
EnterIdle(lane, flags) ==
  IF IdleBlocks(lane)
    THEN /\ pc' = [pc EXCEPT ![lane] = "idle"]
         /\ flag' = flags
    ELSE /\ pc' = [pc EXCEPT ![lane] = FirstCall(lane)]
         /\ flag' = [flags EXCEPT ![lane] = FALSE]

(* Faulty variant of IdleWakes: an interrupt does not wake a blocked idle. *)
IdleWakes_Never(lane) == FALSE

(* Whether a blocked idle is woken by the lane's pending interrupt. *)
IdleWakes(lane) == flag[lane]

(* A blocked idle returns because the lane was interrupted. *)
IdleInterrupted(lane) ==
  /\ pc[lane] = "idle"
  /\ IdleWakes(lane)
  /\ pc' = [pc EXCEPT ![lane] = FirstCall(lane)]
  /\ flag' = [flag EXCEPT ![lane] = FALSE]
  /\ UNCHANGED <<msgs, last_msg_id, chats, jobs, events, sent, others>>

(* A blocked idle of an IMAP lane returns on a remote push or its poll timeout. *)
IdleRemote(lane) ==
  /\ lane \in ImapLanes
  /\ pc[lane] = "idle"
  /\ pc' = [pc EXCEPT ![lane] = FirstCall(lane)]
  /\ flag' = [flag EXCEPT ![lane] = FALSE]
  /\ UNCHANGED <<msgs, last_msg_id, chats, jobs, events, sent, others>>

(* Faulty variant of DueJobs: every job of the lane, waiting or not. *)
DueJobs_All(lane) == {i \in 1..Len(jobs) : JobLane(jobs[i].action) = lane}

(* The due jobs of a lane, as positions of the queue. *)
DueJobs(lane) ==
  {i \in 1..Len(jobs) : JobLane(jobs[i].action) = lane /\ jobs[i].wait = 0}

Min(S) == CHOOSE x \in S : \A y \in S : x <= y

RemoveAt(seq, i) == SubSeq(seq, 1, i - 1) \o SubSeq(seq, i + 1, Len(seq))

(* Faulty variant of Backoff: the same delay after every failure. *)
Backoff_Constant(tries) == 1

(* The delay before the retry after the given number of failures. *)
Backoff(tries) == 2 ^ (tries - 1)

(* Whether a job that failed `tries` times is given up. *)
GivenUp(tries) == tries > RetryCeiling

(* Whether the failure of a job ends it: unrecoverable, or recoverable too often. *)
Fatal(outcome, tries) == outcome = "unrecoverable" \/ GivenUp(tries)

(* The queue after job i failed in a way that keeps it queued. *)
Retried(i) ==
  [jobs EXCEPT ![i].tries = jobs[i].tries + 1,
               ![i].wait = Backoff(jobs[i].tries + 1),
               ![i].backoff = Backoff(jobs[i].tries + 1)]

(* Faulty variant of SentState: a failed job leaves the message pending. *)
SentState_FailureKeepsPending(state, ok) ==
  IF state = DC_STATE_OUT_PENDING /\ ok THEN DC_STATE_OUT_DELIVERED ELSE state

(* The state of a message whose send job ended with the given result. *)
SentState(state, ok) ==
  IF state = DC_STATE_OUT_PENDING
    THEN IF ok THEN DC_STATE_OUT_DELIVERED ELSE DC_STATE_OUT_FAILED
    ELSE state

(* The jobs that run an ongoing process: dc_configure and dc_imex create a job
   that is executed in the IMAP thread. *)
ProcessJobs == {"configure", "imex"}

(* perform_jobs executes the oldest due job of the lane. *)
ExecJob(lane, outcome) ==
  /\ lane \in JobLanes
  /\ pc[lane] = "jobs"
  /\ DueJobs(lane) # {}
  /\ jobs[Min(DueJobs(lane))].action \notin ProcessJobs
  /\ LET i == Min(DueJobs(lane))
         j == jobs[i]
         m == j.foreign_id
         ended == outcome = "ok" \/ Fatal(outcome, j.tries + 1)
     IN /\ jobs' = IF ~ended THEN Retried(i)
                   ELSE IF outcome = "ok" /\ j.action = "markseen"
                     THEN RemoveAt(jobs, i) \o <<NewJob("send_mdn", m)>>
                     ELSE RemoveAt(jobs, i)
        /\ flag' = IF outcome = "ok" /\ j.action = "markseen"
                     THEN Interrupted({"smtp"}) ELSE flag
        /\ IF ended /\ j.action = "send_msg"
             THEN /\ msgs' = [msgs EXCEPT ![m].state =
                       SentState(msgs[m].state, outcome = "ok")]
                  /\ events' = [events EXCEPT ![m] = Append(@,
                       Event(IF outcome = "ok" THEN DC_EVENT_MSG_DELIVERED
                                               ELSE DC_EVENT_MSG_FAILED,
                             msgs[m].chat_id, m))]
                  /\ sent' = [sent EXCEPT ![m] = IF outcome = "ok" THEN @ + 1 ELSE @]
             ELSE UNCHANGED <<msgs, events, sent>>
  /\ UNCHANGED <<last_msg_id, chats, pc, others>>

(* perform_jobs returns when no job of the lane is due: the inbox thread goes on
   to fetch, the SMTP thread to idle. *)
JobsDone(lane) ==
  /\ lane \in JobLanes
  /\ pc[lane] = "jobs"
  /\ DueJobs(lane) = {}
  /\ IF lane = "inbox"
       THEN pc' = [pc EXCEPT ![lane] = "fetch"] /\ flag' = flag
       ELSE EnterIdle(lane, flag)
  /\ UNCHANGED <<msgs, last_msg_id, chats, jobs, events, sent, others>>

(* The lanes whose fetch projects messages into the store. *)
FetchLanes == {"inbox", "mvbox"}

(* The incoming messages of a chat. *)
IncomingOf(chat_id) == {m \in Rows : sender[m] # 0 /\ msgs[m].chat_id = chat_id}

(* The largest timestamp_sort of the incoming messages of a chat, 0 if none. *)
LastSortTimestamp(chat_id) ==
  LET S == {times[m].sort : m \in IncomingOf(chat_id)} \cup {0}
  IN CHOOSE x \in S : \A y \in S : x >= y

(* Faulty variant of SortTimestamp: messages are sorted by their sending time. *)
SortTimestamp_Sent(chat_id, timestamp_sent) == timestamp_sent

(* The time used for sorting a message received now into the lists: the sending
   time, the receiving time if the sending time is later, or another time if
   the message would not pop up at the end of the list. *)
SortTimestamp(chat_id, timestamp_sent) ==
  LET t == IF timestamp_sent > now THEN now ELSE timestamp_sent
  IN IF t > LastSortTimestamp(chat_id) THEN t ELSE LastSortTimestamp(chat_id) + 1

(* fetch projects a new incoming message of the contact, sent at the given
   time: into the chat with its sender, else into the deaddrop. *)
ReceiveMsgAt(lane, contact_id, timestamp_sent) ==
  /\ lane \in FetchLanes
  /\ pc[lane] = "fetch"
  /\ last_msg_id < MaxMsgs
  /\ LET m == last_msg_id + 1
         c == dc_get_chat_id_by_contact_id(contact_id)
         chat_id == IF c # 0 THEN c ELSE DC_CHAT_ID_DEADDROP
     IN /\ last_msg_id' = m
        /\ msgs' = [msgs EXCEPT ![m] =
             [state |-> DC_STATE_IN_FRESH, chat_id |-> chat_id]]
        /\ sender' = [sender EXCEPT ![m] = contact_id]
        /\ times' = [times EXCEPT ![m] =
             [sent |-> timestamp_sent, rcvd |-> now,
              sort |-> SortTimestamp(chat_id, timestamp_sent)]]
        /\ events' = [events EXCEPT ![m] =
             Append(@, Event(DC_EVENT_INCOMING_MSG, chat_id, m))]
  /\ UNCHANGED <<chats, jobs, pc, flag, sent, group_vars, proc_vars, join_vars,
                 contact_vars, location_vars, qr_vars, net_vars, restart_vars,
                 ext_vars>>

(* An incoming message that was sent just now. *)
ReceiveMsgFrom(lane, contact_id) == ReceiveMsgAt(lane, contact_id, now)

(* The incoming messages of the two-thread runs are sent by Bob. *)
ReceiveMsg(lane) == ReceiveMsgFrom(lane, Bob)

(* Faulty variant of MdnApplies: a read receipt also changes a failed message. *)
MdnApplies_AlsoFailed(state) ==
  state \in {DC_STATE_OUT_DELIVERED, DC_STATE_OUT_FAILED}

(* The states in which a read receipt changes the message. *)
MdnApplies(state) == state = DC_STATE_OUT_DELIVERED

(* fetch projects a read receipt for message m. *)
ReceiveMdn(lane, m) ==
  /\ lane \in FetchLanes
  /\ pc[lane] = "fetch"
  /\ m \in Rows
  /\ MdnApplies(msgs[m].state)
  /\ msgs' = [msgs EXCEPT ![m].state = DC_STATE_OUT_MDN_RCVD]
  /\ events' = [events EXCEPT ![m] =
       Append(@, Event(DC_EVENT_MSG_READ, msgs[m].chat_id, m))]
  /\ UNCHANGED <<last_msg_id, chats, jobs, pc, flag, sent, others>>

(* Faulty variant of FailureHintApplies: a hint also fails a message not yet sent. *)
FailureHintApplies_AlsoPending(state) ==
  state \in {DC_STATE_OUT_DELIVERED, DC_STATE_OUT_PENDING}

(* The states in which a failure hint of the server changes the message. *)
FailureHintApplies(state) == state = DC_STATE_OUT_DELIVERED

(* fetch projects a hint of the server that message m could not be delivered. *)
ReceiveFailureHint(lane, m) ==
  /\ lane \in FetchLanes
  /\ pc[lane] = "fetch"
  /\ m \in Rows
  /\ FailureHintApplies(msgs[m].state)
  /\ msgs' = [msgs EXCEPT ![m].state = DC_STATE_OUT_FAILED]
  /\ events' = [events EXCEPT ![m] =
       Append(@, Event(DC_EVENT_MSG_FAILED, msgs[m].chat_id, m))]
  /\ UNCHANGED <<last_msg_id, chats, jobs, pc, flag, sent, others>>

(* fetch returns and the thread calls idle. *)
FetchDone(lane) ==
  /\ lane \in ImapLanes
  /\ pc[lane] = "fetch"
  /\ EnterIdle(lane, flag)
  /\ UNCHANGED <<msgs, last_msg_id, chats, jobs, events, sent, others>>

(* Time passes by one unit: waiting jobs come closer to being due, and the idle
   of a lane one of whose jobs becomes due is woken. *)
Tick ==
  /\ \E i \in 1..Len(jobs) : jobs[i].wait > 0
  /\ jobs' = [i \in 1..Len(jobs) |->
       IF jobs[i].wait > 0 THEN [jobs[i] EXCEPT !.wait = @ - 1] ELSE jobs[i]]
  /\ flag' = Interrupted({JobLane(jobs[i].action) :
                            i \in {k \in 1..Len(jobs) : jobs[k].wait = 1}})
  /\ UNCHANGED <<msgs, last_msg_id, chats, pc, events, sent, others>>

(* ------------------------------------------------------------------ *)
(* Specification                                                       *)
(* ------------------------------------------------------------------ *)
Outcomes == {"ok", "recoverable", "unrecoverable"}

(* No ongoing process, no blocking call and no handshake. *)
NoProcess == [kind |-> "none", stop |-> FALSE]
NoCall == [kind |-> "none", msg |-> 0]
NoInviter == [proto |-> "none", progress |-> <<>>]
NoJoiner == [proto |-> "none", step |-> "none", progress |-> <<>>]

(* After construction there is no group, no ongoing process and no handshake. *)
OthersInit ==
  /\ groups = {}
  /\ ongoing = NoProcess
  /\ reports = <<>>
  /\ call = NoCall
  /\ inviter = NoInviter
  /\ joiner = NoJoiner
  /\ sender = [m \in MsgIds |-> 0]
  /\ times = [m \in MsgIds |-> [sent |-> 0, rcvd |-> 0, sort |-> 0]]
  /\ contacts = {}
  /\ lot = <<>>
  /\ verified_ids = [chats |-> {}, contacts |-> {}]
  /\ thread_field = [l \in Lanes |-> 1]
  /\ thread_state = [l \in Lanes |-> [g \in 1..MaxGen |->
       [at |-> IF g = 1 THEN "top" ELSE "new", interrupted |-> FALSE]]]
  /\ callers = [c \in Callers |->
       [op |-> "none", lane |-> 0, seen |-> [l \in Lanes |-> 0]]]
  /\ called = <<>>
  /\ activityCounter = 1
  /\ lifecycle = <<>>
  /\ method_calls = <<>>
  /\ work = [queue |-> <<>>, running |-> [l \in JobLanes |-> 0], deleted |-> <<>>]
  /\ reopened = [count |-> 0, failed |-> {}]
  /\ log_connect_errors = TRUE
  /\ net_log = <<>>
  /\ now = 0
  /\ send_until = [c \in StreamChats |-> 0]
  /\ located = [called |-> FALSE, still |-> 0]
  /\ stream_log = [c \in StreamChats |-> [seconds |-> 0, elapsed |-> 0]]

(* ------------------------------------------------------------------ *)
(* Contacts                                                            *)
(* ------------------------------------------------------------------ *)

(* The mailboxes of the runs, and the ways the same mailbox is written: with or
   without the mailto: scheme, and in lower or in mixed case. *)
Mailboxes == {"bob@example.org", "carol@example.org"}
Addrs == [mailbox : Mailboxes, mailto : BOOLEAN, mixed_case : BOOLEAN]

(* The names given with an address; "" is no name (NULL). *)
ContactNames == {"", "Bob", "Robert"}

(* Length of the address books that are added. *)
MaxBook == 2

(* Faulty variant of Normalized: the address is taken as it is written. *)
Normalized_AsWritten(addr) == addr

(* The normalized form of an address: without scheme, in lower case. *)
Normalized(addr) == [addr EXCEPT !.mailto = FALSE, !.mixed_case = FALSE]

(* The row of the address, if there is one. *)
Known(rows, addr) == {r \in rows : r.addr = Normalized(addr)}

(* The id a new contact row gets. *)
NewContactId(rows) == DC_CONTACT_ID_LAST_SPECIAL + 1 + Cardinality(rows)

(* The rows with a row of the address added: nothing is added if there is one. *)
Added(rows, addr, name, origin) ==
  IF Known(rows, addr) # {} THEN rows
  ELSE rows \cup {[id |-> NewContactId(rows), addr |-> Normalized(addr),
                   name |-> name, origin |-> origin]}

(* dc_create_contact: a contact is added by the user; if the address exists
   already, the name is updated and the origin becomes "manually created". *)
CreatedContact(rows, name, addr) ==
  IF Known(rows, addr) = {} THEN Added(rows, addr, name, "manual")
  ELSE {IF r \in Known(rows, addr)
          THEN [r EXCEPT !.name = IF name = "" THEN @ ELSE name,
                         !.origin = "manual"]
          ELSE r : r \in rows}

dc_create_contact(name, addr) ==
  /\ contacts' = CreatedContact(contacts, name, addr)
  /\ UNCHANGED but_contacts

(* One entry of an address book: a new address is added, the name of an
   existing one is updated unless the user has edited the contact. *)
BookEntry(rows, name, addr) ==
  IF Known(rows, addr) = {} THEN Added(rows, addr, name, "address_book")
  ELSE {IF r \in Known(rows, addr) /\ r.origin # "manual" /\ name # ""
          THEN [r EXCEPT !.name = name, !.origin = "address_book"]
          ELSE r : r \in rows}

(* dc_add_address_book: the entries are added one after the other. *)
RECURSIVE BookAdded(_, _)
BookAdded(rows, book) ==
  IF book = <<>> THEN rows
  ELSE BookAdded(BookEntry(rows, book[1].name, book[1].addr), Tail(book))

Books ==
  UNION {[1..n -> [name : ContactNames, addr : Addrs]] : n \in 1..MaxBook}

dc_add_address_book(book) ==
  /\ contacts' = BookAdded(contacts, book)
  /\ UNCHANGED but_contacts

(* A message of an address that is not known yet arrives, or a QR code with the
   address is scanned: a contact row is added if there is none. *)
ContactSeen(addr, origin) ==
  /\ origin \in {"incoming", "qr"}
  /\ contacts' = Added(contacts, addr, "", origin)
  /\ UNCHANGED but_contacts

(* ------------------------------------------------------------------ *)
(* NativeInteractionManager: start(), stop() and the four threads       *)
(* ------------------------------------------------------------------ *)

(* Thread.isAlive() of the thread of the lane created as number g (0: null). *)
isAlive(lane, g) == g # 0 /\ thread_state[lane][g].at \notin {"new", "dead"}

(* Whether a client thread is inside synchronized (threadsCritical). *)
Locked == \E c \in Callers : callers[c].op = "start"

(* start() or stop() is called: startThreads enters its synchronized block
   when no other thread is in it; stopThreads has none. *)
BeginCall(c, op) ==
  /\ callers[c].op = "none"
  /\ Len(called) < MaxCalls
  /\ op = "start" => ~Locked
  /\ callers' = [callers EXCEPT ![c] = [op |-> op, lane |-> 1, seen |-> thread_field]]
  /\ called' = Append(called,
       [op |-> op, alone |-> \A d \in Callers : callers[d].op = "none"])
  /\ UNCHANGED <<thread_field, thread_state, but_threads>>

(* The position of the call after the lane was handled; after the last lane
   the call returns. *)
Advanced(c) ==
  IF callers[c].lane < Len(LaneOrder)
    THEN [callers EXCEPT ![c].lane = @ + 1]
    ELSE [callers EXCEPT ![c] = [op |-> "none", lane |-> 0, seen |-> @.seen]]

(* Faulty variant of MustCreate: startThreads creates a thread in any case. *)
MustCreate_Always(lane) == TRUE

(* Whether startThreads creates the thread of the lane: the field is null or
   its thread is not alive. *)
MustCreate(lane) == thread_field[lane] = 0 \/ ~isAlive(lane, thread_field[lane])

(* The number of the next thread created for the lane. *)
NextGen(lane) ==
  Cardinality({g \in 1..MaxGen : thread_state[lane][g].at # "new"}) + 1

(* startThreads(0) handles one lane: the thread is created and started, or,
   the flags being 0, nothing is done. *)
startThreads(c) ==
  /\ callers[c].op = "start"
  /\ LET lane == LaneOrder[callers[c].lane] IN
       IF MustCreate(lane)
         THEN /\ NextGen(lane) <= MaxGen
              /\ thread_field' = [thread_field EXCEPT ![lane] = NextGen(lane)]
              /\ thread_state' = [thread_state EXCEPT ![lane][NextGen(lane)] =
                   [at |-> "top", interrupted |-> FALSE]]
         ELSE UNCHANGED <<thread_field, thread_state>>
  /\ callers' = Advanced(c)
  /\ UNCHANGED <<called, but_threads>>

(* What stopThreads reads from the field of the lane: the field is written
   inside synchronized and read outside of it, so beside a start() of another
   thread the read may give the value from before that call. *)
FieldRead(c, lane) ==
  {thread_field[lane]} \cup
    {callers[d].seen[lane] : d \in {e \in Callers \ {c} : callers[e].op = "start"}}

(* Faulty variant of InterruptedAt: interrupt() ends a blocked idle. *)
InterruptedAt_EndsIdle(at) == IF at = "idle" THEN "top" ELSE at

(* Where a thread is after interrupt(): where it was. *)
InterruptedAt(at) == at

(* stopThreads handles one lane: the thread in the field, if any, is
   interrupted. *)
stopThreads(c, g) ==
  /\ callers[c].op = "stop"
  /\ LET lane == LaneOrder[callers[c].lane] IN
       /\ g \in FieldRead(c, lane)
       /\ thread_state' =
            IF isAlive(lane, g)
              THEN [thread_state EXCEPT ![lane][g] =
                     [at |-> InterruptedAt(@.at), interrupted |-> TRUE]]
              ELSE thread_state
  /\ callers' = Advanced(c)
  /\ UNCHANGED <<thread_field, called, but_threads>>

(* The thread is at the top of its loop: if Thread.interrupted() it returns,
   else it makes the first call of its round. *)
LoopTop(lane, g) ==
  /\ thread_state[lane][g].at = "top"
  /\ thread_state' = [thread_state EXCEPT ![lane][g] =
       IF @.interrupted THEN [at |-> "dead", interrupted |-> FALSE]
                        ELSE [@ EXCEPT !.at = FirstCall(lane)]]
  /\ UNCHANGED <<thread_field, callers, called, but_threads>>

(* The call that follows in the loop; after idle the loop begins again. *)
NextInLoop(lane, at) ==
  IF at = "jobs" /\ lane = "inbox" THEN "fetch"
  ELSE IF at \in {"jobs", "fetch"} THEN "idle"
  ELSE "top"

(* The call the thread is in returns: perform_jobs and fetch when done, idle on
   an interrupt of the idle, a remote push or its timeout. *)
CallReturns(lane, g) ==
  /\ thread_state[lane][g].at \in {"jobs", "fetch", "idle"}
  /\ thread_state' = [thread_state EXCEPT ![lane][g].at = NextInLoop(lane, @)]
  /\ UNCHANGED <<thread_field, callers, called, but_threads>>

(* ------------------------------------------------------------------ *)
(* ForegroundDetector: the counter of started activities                *)
(* ------------------------------------------------------------------ *)

(* The largest value of a Java int, which activityCounter is. *)
MAX_VALUE == 2147483647

(* n + 1 and n - 1 on Java ints: the arithmetic wraps at 32 bits. *)
Inc(n) == IF n = MAX_VALUE THEN (-MAX_VALUE) - 1 ELSE n + 1

Dec(n) == IF n = (-MAX_VALUE) - 1 THEN MAX_VALUE ELSE n - 1

isForeground == activityCounter > 0

isBackground == activityCounter = 0

(* Faulty variant of Decremented: the counter is decremented in any case. *)
Decremented_Unguarded(n) == Dec(n)

(* The counter after onActivityStopped: decremented if it is positive. *)
Decremented(n) == IF n > 0 THEN Dec(n) ELSE n

(* Faulty variant of ReportsBackground: background is reported as soon as one
   activity is left. *)
ReportsBackground_Early(n) == n <= 1

(* Whether onActivityStopped calls onBackground, given the counter it has
   just set. *)
ReportsBackground(n) == n = 0

(* onActivityStarted: the counter is incremented and the listener is told
   that the app is in the foreground. *)
onActivityStarted ==
  /\ Len(lifecycle) < MaxCallbacks
  /\ activityCounter' = Inc(activityCounter)
  /\ lifecycle' = Append(lifecycle,
       [callback |-> "onActivityStarted", notified |-> <<"onForeground">>,
        counter |-> activityCounter'])
  /\ UNCHANGED but_fg

(* onActivityStopped: the counter is decremented if positive; if it is 0
   then, the listener is told that the app is in the background. *)
onActivityStopped ==
  /\ Len(lifecycle) < MaxCallbacks
  /\ activityCounter' = Decremented(activityCounter)
  /\ lifecycle' = Append(lifecycle,
       [callback |-> "onActivityStopped",
        notified |-> IF ReportsBackground(activityCounter')
                       THEN <<"onBackground">> ELSE <<>>,
        counter |-> activityCounter'])
  /\ UNCHANGED but_fg

(* ------------------------------------------------------------------ *)
(* CallHandler: method calls of the Flutter side and their results      *)
(* ------------------------------------------------------------------ *)

(* Methods of Method.Context that handleContextCalls dispatches (a part of
   them). *)
Methods ==
  {"CONFIG_SET", "CONFIG_GET", "CONFIG_GET_INT", "IS_CONFIGURED",
   "CREATE_GROUP_CHAT", "CREATE_CHAT_MESSAGE", "EXPORT_KEYS", "IMPORT_KEYS",
   "STOP_ONGOING_PROCESS"}

(* The arguments of a method call: none at all ("nil"), a map that lacks a key
   the method reads ("incomplete"), a map with all keys in which a value has
   the wrong type ("mistyped"), and a map as the method expects it. *)
ArgumentMaps == {"nil", "incomplete", "mistyped", "complete"}

(* What dc_get_config returns: never NULL; the empty string or a text. *)
ConfigValues == {"", "text"}

(* The app goes on and the result callback was invoked with these values. *)
Returned(results) == [results |-> results, crashed |-> FALSE]

(* Method.errorMissingArgument(result:): not part of the sources; by its name
   and its use before a bare return it reports the error through the result
   callback, once. *)
errorMissingArgument == <<"error">>

(* setConfig: the value dcConfig.set returned, or a message if key or value
   cannot be read as a string. *)
setConfig(arguments) ==
  Returned(IF arguments = "complete" THEN <<"value">> ELSE <<"message">>)

(* getConfig: with a key, the string value is passed to result, after a
   result(nil) if it is empty (no return lies between the two); the integer
   value is passed once; a type that is neither passes nothing. Without a key
   a message is passed. *)
getConfig(arguments, type, value) ==
  Returned(
    IF arguments = "complete"
      THEN CASE type = "STRING" -> (IF value = "" THEN <<"nil">> ELSE <<>>) \o <<"value">>
             [] type = "INT" -> <<"value">>
             [] OTHER -> <<>>
      ELSE <<"message">>)

(* createGroupChat: fatalError() without arguments; if a key is absent or
   verified is no Bool, errorMissingArgument is called and what it returns is
   passed to result; else the chat id is passed. Arguments that are no map
   have no branch. *)
createGroupChat(arguments) ==
  CASE arguments = "nil" -> [results |-> <<>>, crashed |-> TRUE]
    [] arguments \in {"incomplete", "mistyped"} ->
         Returned(errorMissingArgument \o <<"void">>)
    [] OTHER -> Returned(<<"value">>)

(* createChatMessage: errorMissingArgument unless chat id and text can be
   read; if they can, nothing is done (the body of that branch is a comment). *)
createChatMessage(arguments) ==
  Returned(IF arguments = "complete" THEN <<>> ELSE errorMissingArgument)

(* The switch of handleContextCalls. *)
Dispatched(method, arguments, value) ==
  CASE method = "CONFIG_SET" -> setConfig(arguments)
    [] method = "CONFIG_GET" -> getConfig(arguments, "STRING", value)
    [] method = "CONFIG_GET_INT" -> getConfig(arguments, "INT", value)
    [] method = "IS_CONFIGURED" -> Returned(<<"value">>)
    [] method = "CREATE_GROUP_CHAT" -> createGroupChat(arguments)
    [] method = "CREATE_CHAT_MESSAGE" -> createChatMessage(arguments)
    [] method \in {"EXPORT_KEYS", "IMPORT_KEYS"} -> Returned(<<>>)
    [] method = "STOP_ONGOING_PROCESS" -> Returned(<<"nil">>)
    [] OTHER -> Returned(<<>>)

(* handleContextCalls: a method call arrives and is handled; value is what the
   core returns for the configuration key, if the method reads one. *)
handleContextCalls(method, arguments, value) ==
  /\ Len(method_calls) < MaxMethodCalls
  /\ \A i \in 1..Len(method_calls) : ~method_calls[i].crashed
  /\ method_calls' = Append(method_calls,
       LET done == Dispatched(method, arguments, value) IN
         [method |-> method, arguments |-> arguments, value |-> value,
          results |-> done.results, crashed |-> done.crashed])
  /\ UNCHANGED but_flutter

(* ------------------------------------------------------------------ *)
(* perform_jobs in steps: a job is taken, executed and finished         *)
(* ------------------------------------------------------------------ *)

(* The ids of the jobs in progress. *)
InProgress == {work.running[l] : l \in JobLanes} \ {0}

(* Faulty variant of Takeable: any queued job can be taken. *)
Takeable_Any(lane, row) == TRUE

(* Whether perform_jobs of the lane can take the job row: it is a job of the
   lane and not in progress. *)
Takeable(lane, row) == row.lane = lane /\ row.id \notin InProgress

(* The positions of the queue whose job the lane can take. *)
TakeableJobs(lane) ==
  {i \in 1..Len(work.queue) : Takeable(lane, work.queue[i])}

(* A call that needs the network inserts a job row for the lane. *)
AddJob(lane) ==
  /\ lane \in JobLanes
  /\ Len(work.queue) + Len(work.deleted) < MaxJobs
  /\ work' = [work EXCEPT !.queue = Append(@,
       [id |-> Len(work.queue) + Len(work.deleted) + 1, lane |-> lane])]
  /\ UNCHANGED <<vars, group_vars, proc_vars, join_vars, old_vars, verify_vars,
                 thread_vars, ui_vars>>

(* perform_jobs of the lane takes its oldest job and marks it as being in
   progress, in one step. *)
TakeJob(lane) ==
  /\ lane \in JobLanes
  /\ pc[lane] = "jobs"
  /\ work.running[lane] = 0
  /\ TakeableJobs(lane) # {}
  /\ work' = [work EXCEPT !.running[lane] = work.queue[Min(TakeableJobs(lane))].id]
  /\ UNCHANGED <<vars, group_vars, proc_vars, join_vars, old_vars, verify_vars,
                 thread_vars, ui_vars>>

(* The queue without the rows of the given id. *)
WithoutJob(queue, id) == SelectSeq(queue, LAMBDA row : row.id # id)

(* perform_jobs of the lane finishes the job it has in progress: the row is
   deleted, or it stays queued for a retry. *)
FinishJob(lane, retry) ==
  /\ lane \in JobLanes
  /\ work.running[lane] # 0
  /\ work' = IF retry
       THEN [work EXCEPT !.running[lane] = 0]
       ELSE [queue |-> WithoutJob(work.queue, work.running[lane]),
             running |-> [work.running EXCEPT ![lane] = 0],
             deleted |-> Append(work.deleted, work.running[lane])]
  /\ UNCHANGED <<vars, group_vars, proc_vars, join_vars, old_vars, verify_vars,
                 thread_vars, ui_vars>>

(* ------------------------------------------------------------------ *)
(* Closing and opening the database                                    *)
(* ------------------------------------------------------------------ *)

(* The failed messages. *)
Failed == {m \in Rows : msgs[m].state = DC_STATE_OUT_FAILED}

(* Faulty variant of StoredJobs: the send job of a failed message is queued
   again. *)
StoredJobs_Requeued ==
  IF Failed = {} THEN jobs ELSE Append(jobs, NewJob("send_msg", Min(Failed)))

(* The job rows found in the database opened again: the rows as they were when
   it was closed. *)
StoredJobs == jobs

(* dc_close and dc_open: the database is closed and opened again and the
   threads start over; the rows of the database are kept, the pending
   interrupts are not. *)
Reopen ==
  /\ reopened.count < MaxReopens
  /\ reopened' = [count |-> reopened.count + 1, failed |-> Failed]
  /\ jobs' = StoredJobs
  /\ pc' = [l \in Lanes |-> IF pc[l] = "none" THEN "none" ELSE FirstCall(l)]
  /\ flag' = [l \in Lanes |-> FALSE]
  /\ UNCHANGED <<msgs, last_msg_id, chats, events, sent, group_vars, proc_vars,
                 join_vars, msg_vars, contact_vars, location_vars, qr_vars,
                 net_vars, ext_vars>>

(* ------------------------------------------------------------------ *)
(* Network errors                                                      *)
(* ------------------------------------------------------------------ *)

(* Faulty variant of NetworkErrorData1: every network error is worth reporting. *)
NetworkErrorData1_Always(first) == 1

(* data1 of DC_EVENT_ERROR_NETWORK: 1 for the first/new network error, 0 for a
   subsequent one. *)
NetworkErrorData1(first) == IF first THEN 1 ELSE 0

(* An action that needs the network is performed: if there is no network,
   DC_EVENT_ERROR_NETWORK is raised and the following errors are subsequent
   ones; if it succeeds, the next error is a new one. *)
NetworkAction(ok) ==
  /\ Len(net_log) < MaxActions
  /\ net_log' = Append(net_log,
       IF ok THEN [ok |-> TRUE, event |-> 0, data1 |-> 0]
             ELSE [ok |-> FALSE, event |-> DC_EVENT_ERROR_NETWORK,
                   data1 |-> NetworkErrorData1(log_connect_errors)])
  /\ log_connect_errors' = ok
  /\ UNCHANGED but_net

(* ------------------------------------------------------------------ *)
(* QR codes                                                            *)
(* ------------------------------------------------------------------ *)

(* The scanned texts: how the text begins, and what follows: a fingerprint
   (none, of wrong length, well-formed), an address (none, malformed,
   well-formed), invite number and auth code, group name and id, and whether
   the key known for the peer has the fingerprint ("same"), another one
   ("other") or no key is known ("none"). *)
Schemes ==
  {"OPENPGP4FPR:", "mailto:", "SMTP:", "MATMSG:", "BEGIN:VCARD", "http://",
   "https://", ""}
QrTexts ==
  [scheme : Schemes, fpr : {"none", "short", "full"},
   addr : {"none", "bad", "good"}, invite : BOOLEAN, group : BOOLEAN,
   key : {"none", "same", "other"}]

AddrSchemes == {"mailto:", "SMTP:", "MATMSG:", "BEGIN:VCARD"}

(* What is parsed out of the text: a fingerprint and the parameters of the
   handshake only after OPENPGP4FPR:, an address after it or after one of the
   address schemes. *)
Fingerprint(qr) == IF qr.scheme = "OPENPGP4FPR:" THEN qr.fpr ELSE "none"
Address(qr) ==
  IF qr.scheme \in AddrSchemes \cup {"OPENPGP4FPR:"} THEN qr.addr ELSE "none"
Invited(qr) == qr.scheme = "OPENPGP4FPR:" /\ qr.invite /\ Address(qr) = "good"

(* Faulty variant of Unrecognized: a text that matches no scheme is an error. *)
Unrecognized_IsError == DC_QR_ERROR

(* The state of a text that matches no recognized scheme. *)
Unrecognized == DC_QR_TEXT

(* The state dc_check_qr gives the scanned text. *)
QrState(qr) ==
  IF Address(qr) = "bad" \/ Fingerprint(qr) = "short" THEN DC_QR_ERROR
  ELSE IF Fingerprint(qr) = "full"
    THEN IF Invited(qr)
           THEN IF qr.group THEN DC_QR_ASK_VERIFYGROUP ELSE DC_QR_ASK_VERIFYCONTACT
         ELSE IF qr.key = "same" THEN DC_QR_FPR_OK
         ELSE IF qr.key = "other" /\ Address(qr) = "good" THEN DC_QR_FPR_MISMATCH
         ELSE DC_QR_FPR_WITHOUT_ADDR
  ELSE IF Address(qr) = "good" THEN DC_QR_ADDR
  ELSE IF qr.scheme \in {"http://", "https://"} THEN DC_QR_URL
  ELSE Unrecognized

(* dc_check_qr: the scanned text is parsed and the lot is returned. *)
dc_check_qr(qr) ==
  /\ lot' = <<[state |-> QrState(qr), qr |-> qr]>>
  /\ UNCHANGED but_qr

(* ------------------------------------------------------------------ *)
(* Location streaming                                                  *)
(* ------------------------------------------------------------------ *)

(* The seconds location streaming is enabled for, and the time the runs last. *)
MaxSeconds == 2
MaxTime == 4

(* Faulty variant of dc_is_sending_locations_to_chat: streaming does not end by
   itself. *)
dc_is_sending_locations_to_chat_Forever(chat_id) == send_until[chat_id] > 0

(* dc_is_sending_locations_to_chat: whether location streaming is enabled for
   the chat: it was enabled and its seconds have not elapsed. *)
dc_is_sending_locations_to_chat(chat_id) == send_until[chat_id] > now

(* dc_send_locations_to_chat: streaming is enabled for the given number of
   seconds, or disabled with 0 seconds. *)
dc_send_locations_to_chat(chat_id, seconds) ==
  /\ chat_id \in StreamChats
  /\ seconds \in 0..MaxSeconds
  /\ now + seconds <= MaxTime
  /\ send_until' = [send_until EXCEPT ![chat_id] =
       IF seconds > 0 THEN now + seconds ELSE 0]
  /\ stream_log' = [stream_log EXCEPT ![chat_id] =
       [seconds |-> seconds, elapsed |-> 0]]
  /\ UNCHANGED but_locations
  /\ UNCHANGED <<now, located>>

(* dc_set_location: returns 1 if location streaming is still enabled for at
   least one chat, else 0. *)
dc_set_location ==
  /\ located' = [called |-> TRUE,
                 still |-> IF \E c \in StreamChats : dc_is_sending_locations_to_chat(c)
                             THEN 1 ELSE 0]
  /\ UNCHANGED but_locations
  /\ UNCHANGED <<now, send_until, stream_log>>

(* A second passes. *)
Second ==
  /\ now < MaxTime
  /\ now' = now + 1
  /\ stream_log' = [c \in StreamChats |->
       [stream_log[c] EXCEPT !.elapsed = IF @ < MaxTime THEN @ + 1 ELSE @]]
  /\ located' = [located EXCEPT !.called = FALSE]
  /\ UNCHANGED but_locations
  /\ UNCHANGED <<send_until>>

(* ------------------------------------------------------------------ *)
(* Ongoing processes: dc_configure, dc_imex, dc_initiate_key_transfer  *)
(* ------------------------------------------------------------------ *)

(* Faulty variant of Busy: a running process is not noticed. *)
Busy_Never == FALSE

(* Whether there is an ongoing process: there is at most one at a time. *)
Busy == ongoing.kind # "none"

ProcessOutcomes == {"ok", "error", "stopped"}

(* Faulty variant of Reported: a stopped process reports success. *)
Reported_StoppedAsDone(outcome, done, failed) ==
  IF outcome = "error" THEN failed ELSE done

(* What a process reports at its end: success only if it was done; a stopped
   process, like a failed one, reports the value for "not done". *)
Reported(outcome, done, failed) == IF outcome = "ok" THEN done ELSE failed

(* The process ends: it reports, and the next process can be started. *)
EndProcess(outcome, done, failed) ==
  /\ ongoing' = NoProcess
  /\ reports' = Append(reports, [kind |-> ongoing.kind, outcome |-> outcome,
                                  value |-> Reported(outcome, done, failed)])

(* dc_configure and dc_imex: the call creates the job for the IMAP thread and
   returns; a call while a process is running is ignored. *)
StartProcessJob(kind) ==
  /\ call.kind = "none"
  /\ IF Busy
       THEN UNCHANGED <<ongoing, jobs, flag>>
       ELSE /\ Len(reports) < MaxProcs
            /\ ongoing' = [kind |-> kind, stop |-> FALSE]
            /\ jobs' = Append(jobs, NewJob(kind, 0))
            /\ flag' = Interrupted({"inbox"})
  /\ UNCHANGED <<msgs, last_msg_id, chats, pc, events, sent>>
  /\ UNCHANGED <<reports, call, group_vars, join_vars, rest_vars>>

dc_configure == StartProcessJob("configure")

dc_imex == StartProcessJob("imex")

(* dc_stop_ongoing_process: the process is signalled to stop; the call returns
   without waiting for it. *)
dc_stop_ongoing_process ==
  /\ Busy
  /\ ongoing' = [ongoing EXCEPT !.stop = TRUE]
  /\ UNCHANGED <<vars, reports, call, group_vars, join_vars, rest_vars>>

(* perform_jobs of the IMAP thread executes the job of dc_configure or dc_imex
   to its end: done, failed, or stopped if the stop signal was raised. *)
EndProcessJob(outcome) ==
  /\ pc["inbox"] = "jobs"
  /\ DueJobs("inbox") # {}
  /\ jobs[Min(DueJobs("inbox"))].action \in ProcessJobs
  /\ outcome = "stopped" => ongoing.stop
  /\ jobs' = RemoveAt(jobs, Min(DueJobs("inbox")))
  /\ EndProcess(outcome, ProgressDone, ProgressError)
  /\ UNCHANGED <<msgs, last_msg_id, chats, pc, flag, events, sent>>
  /\ UNCHANGED <<call, group_vars, join_vars, rest_vars>>

(* The id of the chat with the contact, or the id its new chat gets. *)
ChatIdFor(contact_id) ==
  IF dc_get_chat_id_by_contact_id(contact_id) # 0
    THEN dc_get_chat_id_by_contact_id(contact_id)
    ELSE FirstChatId + Cardinality(chats)

(* The chat rows with a chat with the contact. *)
WithChat(contact_id) ==
  IF dc_get_chat_id_by_contact_id(contact_id) # 0 THEN chats
  ELSE chats \cup {[id |-> ChatIdFor(contact_id), contact_id |-> contact_id,
                    archived |-> FALSE]}

(* dc_initiate_key_transfer: the setup message to oneself is created and handed
   over for sending; the call then waits until it is really sent. *)
dc_initiate_key_transfer ==
  /\ call.kind = "none"
  /\ ~Busy
  /\ Len(reports) < MaxProcs
  /\ last_msg_id < MaxMsgs
  /\ LET m == last_msg_id + 1 IN
       /\ last_msg_id' = m
       /\ chats' = WithChat(DC_CONTACT_ID_SELF)
       /\ msgs' = [msgs EXCEPT ![m] =
            [state |-> DC_STATE_OUT_PENDING, chat_id |-> ChatIdFor(DC_CONTACT_ID_SELF)]]
       /\ jobs' = jobs \o SendJobs(m)
       /\ flag' = Interrupted(SendInterrupts)
       /\ call' = [kind |-> "key_transfer", msg |-> m]
  /\ ongoing' = [kind |-> "key_transfer", stop |-> FALSE]
  /\ UNCHANGED <<pc, events, sent, reports, group_vars, join_vars, rest_vars>>

(* Faulty variant of KeyTransferWaits: the call returns before the message is sent. *)
KeyTransferWaits_Never(outcome) == FALSE

(* Whether dc_initiate_key_transfer goes on waiting: until the setup message is
   sent or could not be sent, or the process is stopped. *)
KeyTransferWaits(outcome) ==
  CASE outcome = "ok" -> msgs[call.msg].state # DC_STATE_OUT_DELIVERED
    [] outcome = "error" -> msgs[call.msg].state # DC_STATE_OUT_FAILED
    [] OTHER -> ~ongoing.stop

(* dc_initiate_key_transfer returns: the setup code, or NULL. *)
KeyTransferReturn(outcome) ==
  /\ call.kind = "key_transfer"
  /\ ~KeyTransferWaits(outcome)
  /\ call' = NoCall
  /\ EndProcess(outcome, SetupCode, NotDone)
  /\ UNCHANGED <<vars, group_vars, join_vars, rest_vars>>

(* ------------------------------------------------------------------ *)
(* Secure-join                                                         *)
(* ------------------------------------------------------------------ *)

(* The two protocols a QR code offers: setup-verified-contact and the
   verified-group protocol. *)
Protocols == {"vc", "vg"}

(* Faulty variant of Acknowledged: every handshake waits for the acknowledgement. *)
Acknowledged_Always(proto) == TRUE

(* Whether the joiner acknowledges that it was added (vg-member-added-received),
   which the inviter reports: only in the verified-group protocol. *)
Acknowledged(proto) == proto = "vg"

(* fetch projects vc-request or vg-request of the joining contact: a handshake
   begins. *)
InviterRequest(lane, proto) ==
  /\ lane \in FetchLanes
  /\ pc[lane] = "fetch"
  /\ inviter' = [proto |-> proto, progress |-> <<InviterRequestReceived>>]
  /\ UNCHANGED <<vars, group_vars, proc_vars, joiner, rest_vars>>

(* The contact that joins in the handshakes. *)
Joining == Bob

(* The group rows after the joining contact was added by the handshake: in the
   verified-group protocol it becomes a member of the verified group. *)
JoinedGroups(gs, proto) ==
  IF proto = "vg"
    THEN {IF g.id \in verified_ids.chats
            THEN [g EXCEPT !.members = @ \cup {Joining}] ELSE g : g \in gs}
    ELSE gs

(* fetch projects the request-with-auth and the fingerprint of the joining
   contact is verified: the contact is verified, vg-member-added or
   vc-contact-confirm is sent; a handshake that is not acknowledged is
   finished. *)
InviterAuth(lane) ==
  /\ lane \in FetchLanes
  /\ pc[lane] = "fetch"
  /\ inviter.progress = <<InviterRequestReceived>>
  /\ inviter' = [inviter EXCEPT !.progress =
       IF Acknowledged(inviter.proto)
         THEN @ \o <<InviterAuthReceived>>
         ELSE @ \o <<InviterAuthReceived, InviterFinished>>]
  /\ verified_ids' = [verified_ids EXCEPT !.contacts = @ \cup {Joining}]
  /\ groups' = JoinedGroups(groups, inviter.proto)
  /\ UNCHANGED <<vars, proc_vars, joiner, old_vars, work_vars, thread_vars,
                 ui_vars>>

(* fetch projects a request-with-auth whose fingerprint does not pass the
   verification: the handshake ends, nothing is sent. *)
InviterAuthFails(lane) ==
  /\ lane \in FetchLanes
  /\ pc[lane] = "fetch"
  /\ inviter.progress = <<InviterRequestReceived>>
  /\ inviter' = NoInviter
  /\ UNCHANGED <<vars, group_vars, proc_vars, joiner, rest_vars>>

(* fetch projects vg-member-added-received: the handshake is finished. *)
InviterAcknowledged(lane) ==
  /\ lane \in FetchLanes
  /\ pc[lane] = "fetch"
  /\ Acknowledged(inviter.proto)
  /\ inviter.progress = <<InviterRequestReceived, InviterAuthReceived>>
  /\ inviter' = [inviter EXCEPT !.progress =
       @ \o <<InviterMemberAddedReceived, InviterFinished>>]
  /\ UNCHANGED <<vars, group_vars, proc_vars, joiner, rest_vars>>

(* dc_join_securejoin: the request is sent and the call waits for the messages
   of the inviter. *)
dc_join_securejoin(proto) ==
  /\ call.kind = "none"
  /\ ~Busy
  /\ Len(reports) < MaxProcs
  /\ ongoing' = [kind |-> "join", stop |-> FALSE]
  /\ call' = [kind |-> "join", msg |-> 0]
  /\ joiner' = [proto |-> proto, step |-> "requested", progress |-> <<>>]
  /\ UNCHANGED <<vars, reports, group_vars, inviter, rest_vars>>

(* fetch projects the auth-required message of the inviter: the inviter is
   verified and request-with-auth is sent, or the verification fails. *)
JoinerAuthRequired(lane, verified) ==
  /\ lane \in FetchLanes
  /\ pc[lane] = "fetch"
  /\ call.kind = "join"
  /\ joiner.step = "requested"
  /\ joiner' = IF verified
       THEN [joiner EXCEPT !.step = "auth_sent", !.progress = @ \o <<JoinerAuthSent>>]
       ELSE [joiner EXCEPT !.step = "failed"]
  /\ UNCHANGED <<vars, group_vars, proc_vars, inviter, rest_vars>>

(* fetch projects vc-contact-confirm or vg-member-added: the joiner is done. *)
JoinerConfirmed(lane) ==
  /\ lane \in FetchLanes
  /\ pc[lane] = "fetch"
  /\ call.kind = "join"
  /\ joiner.step = "auth_sent"
  /\ joiner' = [joiner EXCEPT !.step = "confirmed",
                               !.progress = @ \o <<JoinerFinished>>]
  /\ UNCHANGED <<vars, group_vars, proc_vars, inviter, rest_vars>>

(* Faulty variant of JoinWaits: the stop signal does not end the waiting. *)
JoinWaits_IgnoresStop(outcome) ==
  CASE outcome = "ok" -> joiner.step # "confirmed"
    [] outcome = "error" -> joiner.step # "failed"
    [] OTHER -> TRUE

(* Whether dc_join_securejoin goes on waiting: until the handshake is confirmed
   or has failed, or the process is stopped. *)
JoinWaits(outcome) ==
  CASE outcome = "ok" -> joiner.step # "confirmed"
    [] outcome = "error" -> joiner.step # "failed"
    [] OTHER -> ~ongoing.stop \/ joiner.step = "confirmed"

(* dc_join_securejoin returns: the id of the joined chat (the chat with the
   inviter), or 0 if the verification failed or was aborted. *)
JoinReturn(outcome) ==
  /\ call.kind = "join"
  /\ ~JoinWaits(outcome)
  /\ call' = NoCall
  /\ chats' = IF outcome = "ok" THEN WithChat(Bob) ELSE chats
  /\ EndProcess(outcome, ChatIdFor(Bob), NotDone)
  /\ joiner' = [joiner EXCEPT !.step = "none"]
  /\ UNCHANGED <<msgs, last_msg_id, jobs, pc, flag, events, sent>>
  /\ UNCHANGED <<group_vars, inviter, rest_vars>>

Init ==
  /\ msgs = [m \in MsgIds |-> NoRow]
  /\ last_msg_id = 0
  /\ chats = {}
  /\ jobs = <<>>
  /\ pc = [l \in Lanes |-> IF l \in JobLanes THEN FirstCall(l) ELSE "none"]
  /\ flag = [l \in Lanes |-> FALSE]
  /\ events = [m \in MsgIds |-> <<>>]
  /\ sent = [m \in MsgIds |-> 0]
  /\ OthersInit

Api ==
  \/ \E l \in {k \in Lanes : pc[k] # "none"} : dc_interrupt_idle(l)
  \/ dc_create_chat_by_contact_id(Bob)
  \/ \E c \in ChatIds, m \in MsgIds : dc_send_msg(c, m)
  \/ \E c \in ChatIds : dc_prepare_msg(c)
  \/ \E c \in ChatIds, t \in BOOLEAN : dc_set_draft(c, t)
  \/ \E c \in ChatIds : dc_marknoticed_chat(c)
  \/ dc_marknoticed_contact(Bob)
  \/ \E ids \in SUBSET MsgIds : dc_markseen_msgs(ids)
  \/ \E c \in ChatIds, a \in BOOLEAN : dc_archive_chat(c, a)
  \/ dc_maybe_network

Worker(l) ==
  \/ \E o \in Outcomes : ExecJob(l, o)
  \/ JobsDone(l)
  \/ ReceiveMsg(l)
  \/ \E m \in MsgIds : ReceiveMdn(l, m)
  \/ \E m \in MsgIds : ReceiveFailureHint(l, m)
  \/ FetchDone(l)
  \/ IdleInterrupted(l)
  \/ IdleRemote(l)

(* The clients of the header's example run two threads: the IMAP (inbox) thread
   and the SMTP thread. *)
Next == Api \/ (\E l \in JobLanes : Worker(l)) \/ Tick

Spec == Init /\ [][Next]_vars

(* The threads keep running and time passes; nothing is assumed about the calls
   of the client, about what the server sends or about remote pushes. *)
Fairness(lanes) ==
  /\ \A l \in lanes :
       /\ WF_vars(\E o \in Outcomes : ExecJob(l, o))
       /\ WF_vars(JobsDone(l))
       /\ WF_vars(FetchDone(l))
       /\ WF_vars(IdleInterrupted(l))
  /\ WF_vars(Tick)

FairSpec == Spec /\ Fairness(JobLanes)

(* NativeInteractionManager runs all four threads; the runs start after the
   header's first steps: the chat with Bob is created and a message is sent. *)
LaneInit ==
  /\ msgs = [m \in MsgIds |->
       IF m = 1 THEN [state |-> DC_STATE_OUT_PENDING, chat_id |-> FirstChatId]
                ELSE NoRow]
  /\ last_msg_id = 1
  /\ chats = {[id |-> FirstChatId, contact_id |-> Bob, archived |-> FALSE]}
  /\ jobs = <<NewJob("send_msg", 1)>>
  /\ pc = [l \in Lanes |-> FirstCall(l)]
  /\ flag = [l \in Lanes |-> l = "smtp"]
  /\ events = [m \in MsgIds |-> <<>>]
  /\ sent = [m \in MsgIds |-> 0]
  /\ OthersInit

LaneNext ==
  \/ \E l \in Lanes : dc_interrupt_idle(l)
  \/ dc_maybe_network
  \/ \E l \in Lanes : Worker(l)
  \/ Tick

LaneSpec == LaneInit /\ [][LaneNext]_vars

LaneFairSpec == LaneSpec /\ Fairness(Lanes)

(* The ongoing processes: the client starts and stops them while the IMAP and
   the SMTP thread run. *)
OngoingNext ==
  \/ dc_configure
  \/ dc_imex
  \/ dc_initiate_key_transfer
  \/ \E proto \in Protocols : dc_join_securejoin(proto)
  \/ dc_stop_ongoing_process
  \/ \E o \in ProcessOutcomes : EndProcessJob(o)
  \/ \E o \in ProcessOutcomes : KeyTransferReturn(o)
  \/ \E v \in BOOLEAN : JoinerAuthRequired("inbox", v)
  \/ JoinerConfirmed("inbox")
  \/ \E o \in ProcessOutcomes : JoinReturn(o)
  \/ \E l \in JobLanes, o \in Outcomes : ExecJob(l, o)
  \/ \E l \in JobLanes : JobsDone(l)
  \/ \E l \in JobLanes : FetchDone(l)
  \/ \E l \in JobLanes : IdleInterrupted(l)
  \/ \E l \in JobLanes : IdleRemote(l)
  \/ Tick

OngoingSpec == Init /\ [][OngoingNext]_all_vars

(* A process that can end does end, and a call that can return does return. *)
ProcessFairness ==
  /\ WF_all_vars(\E o \in ProcessOutcomes : EndProcessJob(o))
  /\ WF_all_vars(\E o \in ProcessOutcomes : KeyTransferReturn(o))
  /\ WF_all_vars(\E o \in ProcessOutcomes : JoinReturn(o))

OngoingFairSpec == OngoingSpec /\ Fairness(JobLanes) /\ ProcessFairness

(* Secure-join: this device is inviter of one handshake and joiner of another;
   the handshake messages arrive in the fetch of the IMAP thread. *)
JoinNext ==
  \/ \E proto \in Protocols : InviterRequest("inbox", proto)
  \/ InviterAuth("inbox")
  \/ InviterAcknowledged("inbox")
  \/ \E proto \in Protocols : dc_join_securejoin(proto)
  \/ \E v \in BOOLEAN : JoinerAuthRequired("inbox", v)
  \/ JoinerConfirmed("inbox")
  \/ \E o \in ProcessOutcomes : JoinReturn(o)
  \/ dc_stop_ongoing_process
  \/ dc_interrupt_idle("inbox")
  \/ JobsDone("inbox")
  \/ FetchDone("inbox")
  \/ IdleInterrupted("inbox")
  \/ IdleRemote("inbox")

JoinSpec == Init /\ [][JoinNext]_all_vars

JoinFairSpec == JoinSpec /\ Fairness({"inbox"}) /\ ProcessFairness

(* Contact requests: messages of two contacts arrive in the fetch of the IMAP
   thread, and the user answers them or opens a chat with the contact. *)
DeaddropNext ==
  \/ \E c \in Contacts : ReceiveMsgFrom("inbox", c)
  \/ \E m \in MsgIds : dc_create_chat_by_msg_id(m)
  \/ \E c \in Contacts : dc_create_chat_by_contact_id(c)
  \/ \E c \in Contacts : dc_marknoticed_contact(c)
  \/ \E c \in ChatIds : dc_marknoticed_chat(c)
  \/ JobsDone("inbox")
  \/ FetchDone("inbox")
  \/ IdleRemote("inbox")

DeaddropSpec == Init /\ [][DeaddropNext]_all_vars

(* The contacts: created by the user, added from the address book, or added
   when a message arrives or a QR code is scanned. *)
ContactNext ==
  \/ \E name \in ContactNames, addr \in Addrs : dc_create_contact(name, addr)
  \/ \E book \in Books : dc_add_address_book(book)
  \/ \E addr \in Addrs, origin \in {"incoming", "qr"} : ContactSeen(addr, origin)

ContactSpec == Init /\ [][ContactNext]_all_vars

(* Delayed messages: messages of two contacts arrive in the fetch of the IMAP
   thread, sent at any time before or after the time of the receiving device,
   while time passes and the user opens a chat with the contact. *)
TimeNext ==
  \/ \E c \in Contacts, t \in 0..MaxTime : ReceiveMsgAt("inbox", c, t)
  \/ \E c \in Contacts : dc_create_chat_by_contact_id(c)
  \/ Second
  \/ JobsDone("inbox")
  \/ FetchDone("inbox")
  \/ IdleRemote("inbox")

TimeSpec == Init /\ [][TimeNext]_all_vars

(* A client that sends messages and is restarted: the two threads run, time
   passes, and the database is closed and opened again. *)
RestartNext ==
  \/ dc_create_chat_by_contact_id(Bob)
  \/ \E c \in ChatIds, m \in MsgIds : dc_send_msg(c, m)
  \/ \E l \in JobLanes : Worker(l)
  \/ Tick
  \/ Reopen

RestartSpec == Init /\ [][RestartNext]_all_vars

(* Verified groups: the user creates a group, verified or not, and edits its
   members, while contacts join by the handshakes projected in the fetch of the
   IMAP thread. *)
VerifiedNext ==
  \/ \E v \in BOOLEAN, n \in Names : CreateGroupChat(v, n)
  \/ \E c \in ChatIds, k \in Contacts : dc_add_contact_to_chat(c, k)
  \/ \E c \in ChatIds, k \in Contacts : dc_remove_contact_from_chat(c, k)
  \/ \E proto \in Protocols : InviterRequest("inbox", proto)
  \/ InviterAuth("inbox")
  \/ InviterAuthFails("inbox")
  \/ InviterAcknowledged("inbox")
  \/ JobsDone("inbox")
  \/ FetchDone("inbox")
  \/ IdleRemote("inbox")

VerifiedSpec == Init /\ [][VerifiedNext]_all_vars

(* The two threads that execute jobs take and finish them in any interleaving
   while jobs are inserted. *)
WorkNext ==
  \/ \E l \in JobLanes : AddJob(l)
  \/ \E l \in JobLanes : TakeJob(l)
  \/ \E l \in JobLanes, r \in BOOLEAN : FinishJob(l, r)

WorkSpec == Init /\ [][WorkNext]_all_vars

(* NativeInteractionManager: two client threads call start() and stop() in
   any interleaving with each other and with the four threads. *)
ThreadNext ==
  \/ \E c \in Callers, op \in {"start", "stop"} : BeginCall(c, op)
  \/ \E c \in Callers : startThreads(c)
  \/ \E c \in Callers, g \in 0..MaxGen : stopThreads(c, g)
  \/ \E l \in Lanes, g \in 1..MaxGen : LoopTop(l, g)
  \/ \E l \in Lanes, g \in 1..MaxGen : CallReturns(l, g)

ThreadSpec == Init /\ [][ThreadNext]_all_vars

(* ForegroundDetector receives the lifecycle callbacks of the application's
   activities in any order. *)
FgNext ==
  \/ onActivityStarted
  \/ onActivityStopped

FgSpec == Init /\ [][FgNext]_all_vars

(* The Flutter side calls methods of the context with any arguments. *)
FlutterNext ==
  \E m \in Methods, a \in ArgumentMaps, v \in ConfigValues :
    handleContextCalls(m, a, v)

FlutterSpec == Init /\ [][FlutterNext]_all_vars

(* Actions that need the network succeed or fail for lack of it. *)
NetNext == \E ok \in BOOLEAN : NetworkAction(ok)

NetSpec == Init /\ [][NetNext]_all_vars

(* QR codes are scanned. *)
QrNext == \E qr \in QrTexts : dc_check_qr(qr)

QrSpec == Init /\ [][QrNext]_all_vars

(* Location streaming: the client enables and disables it for two chats and
   sets the location while time passes. *)
LocationNext ==
  \/ \E c \in StreamChats, n \in 0..MaxSeconds : dc_send_locations_to_chat(c, n)
  \/ dc_set_location
  \/ Second

LocationSpec == Init /\ [][LocationNext]_all_vars

LocationFairSpec == LocationSpec /\ WF_all_vars(Second)

(* The calls of the client that hand work over to the threads: messages are
   sent while processes are started and stopped. *)
CallNext ==
  \/ dc_create_chat_by_contact_id(Bob)
  \/ \E c \in ChatIds, m \in MsgIds : dc_send_msg(c, m)
  \/ OngoingNext

CallSpec == Init /\ [][CallNext]_all_vars

(* A client that edits its chats: single chats, groups, drafts and messages;
   what its threads do is left out. *)
ChatNext ==
  \/ dc_create_chat_by_contact_id(Bob)
  \/ \E n \in Names : dc_create_group_chat(n)
  \/ \E c \in ChatIds, k \in Contacts : dc_add_contact_to_chat(c, k)
  \/ \E c \in ChatIds, k \in Contacts : dc_remove_contact_from_chat(c, k)
  \/ \E c \in ChatIds, n \in Names : dc_set_chat_name(c, n)
  \/ \E c \in ChatIds, i \in BOOLEAN : dc_set_chat_profile_image(c, i)
  \/ \E c \in ChatIds, m \in MsgIds : dc_send_msg(c, m)
  \/ \E c \in ChatIds, t \in BOOLEAN : dc_set_draft(c, t)

ChatSpec == Init /\ [][ChatNext]_all_vars

(* ------------------------------------------------------------------ *)
(* Properties                                                          *)
(* ------------------------------------------------------------------ *)

(* The messages whose state a step changes: rows before and after the step. *)
Changed(m) ==
  /\ msgs[m].state # DC_STATE_UNDEFINED
  /\ msgs'[m].state # DC_STATE_UNDEFINED
  /\ msgs[m].state # msgs'[m].state

(* The transitions of the state machine as the specification lists them; a
   message marked seen while still fresh moves forward along fresh->noticed->seen. *)
ListedTransitions ==
  { <<DC_STATE_IN_FRESH, DC_STATE_IN_NOTICED>>,
    <<DC_STATE_IN_NOTICED, DC_STATE_IN_SEEN>>,
    <<DC_STATE_IN_FRESH, DC_STATE_IN_SEEN>>,
    <<DC_STATE_OUT_PREPARING, DC_STATE_OUT_DRAFT>>,
    <<DC_STATE_OUT_PREPARING, DC_STATE_OUT_PENDING>>,
    <<DC_STATE_OUT_PENDING, DC_STATE_OUT_DELIVERED>>,
    <<DC_STATE_OUT_PENDING, DC_STATE_OUT_FAILED>>,
    <<DC_STATE_OUT_DELIVERED, DC_STATE_OUT_MDN_RCVD>> }

EventsOf(m, event) == {i \in 1..Len(events[m]) : events[m][i].event = event}

SendJobsOf(m) ==
  {i \in 1..Len(jobs) : jobs[i].action = "send_msg" /\ jobs[i].foreign_id = m}

(* C1 as stated: every change of a message's state is one of the listed
   transitions fresh->noticed->seen, preparing->draft|pending,
   pending->delivered|failed, delivered->mdn-received. *)
C1_OnlyListedTransitions ==
  [][\A m \in MsgIds :
       Changed(m) => <<msgs[m].state, msgs'[m].state>> \in ListedTransitions]_vars

(* C1 amended: every change of a message's state is one of the listed transitions
   or delivered->failed, which a failure hint of the server causes. *)
C1_ForwardTransitions ==
  [][\A m \in MsgIds :
       Changed(m) => <<msgs[m].state, msgs'[m].state>> \in
         ListedTransitions \cup {<<DC_STATE_OUT_DELIVERED, DC_STATE_OUT_FAILED>>}]_vars

(* A message that was delivered and failed afterwards. *)
C1_Witness ==
  \E m \in MsgIds :
    /\ msgs[m].state = DC_STATE_OUT_FAILED
    /\ EventsOf(m, DC_EVENT_MSG_DELIVERED) # {}
    /\ EventsOf(m, DC_EVENT_MSG_FAILED) # {}

(* C2: failed is terminal: no step changes the state of a failed message. *)
C2_FailedIsTerminal ==
  [][\A m \in MsgIds :
       msgs[m].state = DC_STATE_OUT_FAILED =>
         msgs'[m].state = DC_STATE_OUT_FAILED]_vars

(* A failed message after which the SMTP thread finished its round and a further
   message was received or sent. *)
C2_Witness ==
  /\ msgs[1].state = DC_STATE_OUT_FAILED
  /\ pc["smtp"] = "idle"
  /\ last_msg_id = 2

(* C3: a message has exactly one queued send job while it is pending and none
   otherwise; it is handed over and reported delivered at most once. *)
C3_NoLossNoDoubleSend ==
  \A m \in MsgIds :
    /\ Cardinality(SendJobsOf(m)) =
         (IF msgs[m].state = DC_STATE_OUT_PENDING THEN 1 ELSE 0)
    /\ sent[m] <= 1
    /\ Cardinality(EventsOf(m, DC_EVENT_MSG_DELIVERED)) <= 1

(* One message handed over, another one still queued. *)
C3_Witness ==
  /\ msgs[1].state = DC_STATE_OUT_DELIVERED
  /\ sent[1] = 1
  /\ msgs[2].state = DC_STATE_OUT_PENDING

(* The step is the execution of the send job of message m by the SMTP thread. *)
ExecutesSendJob(m) ==
  /\ pc["smtp"] = "jobs"
  /\ DueJobs("smtp") # {}
  /\ jobs[Min(DueJobs("smtp"))] \in
       {j \in {jobs[i] : i \in SendJobsOf(m)} : j.wait = 0}
  /\ \E o \in Outcomes : ExecJob("smtp", o)

(* C4: only the execution of its send job by the SMTP thread moves a message out
   of pending. *)
C4_OnlySmtpJobLeavesPending ==
  [][\A m \in MsgIds :
       (msgs[m].state = DC_STATE_OUT_PENDING /\ msgs'[m].state # DC_STATE_OUT_PENDING)
         => ExecutesSendJob(m)]_vars

(* A message that left pending while the inbox thread was fetching. *)
C4_Witness ==
  \E m \in MsgIds :
    /\ msgs[m].state \in {DC_STATE_OUT_DELIVERED, DC_STATE_OUT_FAILED}
    /\ Len(events[m]) = 1
    /\ pc["inbox"] = "fetch"

(* C5: dc_send_msg returns with the message pending and its chat listed once,
   without waiting for a thread; with the SMTP thread running the message leaves
   pending, a successful job makes it delivered, and a delivered message has
   exactly one delivered event, with its chat id and message id. *)
C5_SendThenDelivered ==
  /\ [][\A c \in ChatIds, m \in MsgIds :
          dc_send_msg(c, m) =>
            /\ msgs'[m] = [state |-> DC_STATE_OUT_PENDING, chat_id |-> c]
            /\ Cardinality({r \in chats' : r.contact_id = Bob}) = 1
            /\ \A r \in chats' : ~r.archived => r.id \in dc_get_chatlist'
            /\ pc' = pc]_vars
  /\ [][\A m \in MsgIds :
          (ExecutesSendJob(m) /\ ExecJob("smtp", "ok")) =>
            msgs'[m].state = DC_STATE_OUT_DELIVERED]_vars
  /\ [](\A m \in MsgIds :
          msgs[m].state \in {DC_STATE_OUT_DELIVERED, DC_STATE_OUT_MDN_RCVD} =>
            /\ sent[m] = 1
            /\ Cardinality(EventsOf(m, DC_EVENT_MSG_DELIVERED)) = 1
            /\ events[m][1] = Event(DC_EVENT_MSG_DELIVERED, msgs[m].chat_id, m))
  /\ \A m \in MsgIds :
       (msgs[m].state = DC_STATE_OUT_PENDING) ~>
         (msgs[m].state \in {DC_STATE_OUT_DELIVERED, DC_STATE_OUT_MDN_RCVD,
                            DC_STATE_OUT_FAILED})

(* A delivered message of the one chat, with its delivered event. *)
C5_Witness ==
  \E m \in MsgIds :
    /\ msgs[m].state = DC_STATE_OUT_DELIVERED
    /\ events[m] = <<Event(DC_EVENT_MSG_DELIVERED, FirstChatId, m)>>
    /\ dc_get_chatlist = {FirstChatId}

(* C6: a recoverable failure within the retry ceiling keeps the job queued with
   tries incremented and a delay larger than after the failure before; the failure
   that exceeds the ceiling removes exactly that job row and moves exactly the
   message the job sends to failed. *)
C6_RetryWithBackoffThenGiveUp ==
  [][\A l \in JobLanes :
       ExecJob(l, "recoverable") =>
         LET i == Min(DueJobs(l))
             j == jobs[i]
         IN IF j.tries + 1 <= RetryCeiling
              THEN /\ Len(jobs') = Len(jobs)
                   /\ jobs'[i].tries = j.tries + 1
                   /\ jobs'[i].wait > j.backoff
                   /\ jobs'[i].wait > 0
                   /\ msgs' = msgs
              ELSE /\ Len(jobs') = Len(jobs) - 1
                   /\ jobs' = RemoveAt(jobs, i)
                   /\ \A m \in MsgIds :
                        IF j.action = "send_msg" /\ m = j.foreign_id
                          THEN /\ msgs[m].state = DC_STATE_OUT_PENDING
                               /\ msgs'[m].state = DC_STATE_OUT_FAILED
                          ELSE msgs'[m] = msgs[m]]_vars

(* A send job that failed as often as the ceiling allows and is due again. *)
C6_Witness ==
  \E i \in 1..Len(jobs) :
    /\ jobs[i].action = "send_msg"
    /\ jobs[i].tries = RetryCeiling
    /\ jobs[i].backoff > 1
    /\ jobs[i].wait = 0

(* C7 as stated: every recoverable failure of a send job leaves the job row in
   the queue and the message pending. *)
C7_RecoverableKeepsJob ==
  [][\A m \in MsgIds :
       (ExecutesSendJob(m) /\ ExecJob("smtp", "recoverable")) =>
         /\ SendJobsOf(m)' # {}
         /\ msgs'[m].state = DC_STATE_OUT_PENDING]_vars

(* C7 amended: a recoverable failure within the retry ceiling leaves the job row
   queued and the message pending; an unrecoverable failure, and the recoverable
   one that exceeds the ceiling, deletes the job row, sets the message to failed
   and raises one failure event; a send job is queued exactly while its message
   is pending. *)
C7_FailureHandling ==
  /\ [][\A m \in MsgIds, o \in {"recoverable", "unrecoverable"} :
          (ExecutesSendJob(m) /\ ExecJob("smtp", o)) =>
            LET i == Min(DueJobs("smtp"))
            IN IF o = "recoverable" /\ jobs[i].tries + 1 <= RetryCeiling
                 THEN /\ SendJobsOf(m)' = {i}
                      /\ Len(jobs') = Len(jobs)
                      /\ msgs' = msgs
                      /\ events' = events
                 ELSE /\ jobs' = RemoveAt(jobs, i)
                      /\ msgs'[m].state = DC_STATE_OUT_FAILED
                      /\ events' = [events EXCEPT ![m] = Append(@,
                           Event(DC_EVENT_MSG_FAILED, msgs[m].chat_id, m))]]_vars
  /\ [](\A m \in MsgIds :
          (SendJobsOf(m) # {}) <=> (msgs[m].state = DC_STATE_OUT_PENDING))

(* A message that failed without ever being handed over. *)
C7_Witness ==
  \E m \in MsgIds :
    /\ msgs[m].state = DC_STATE_OUT_FAILED
    /\ sent[m] = 0
    /\ events[m] = <<Event(DC_EVENT_MSG_FAILED, msgs[m].chat_id, m)>>
    /\ SendJobsOf(m) = {}

(* C8: a thread blocked in idle whose lane is interrupted leaves idle and goes on
   to the first call of its next round, without a remote signal or poll timeout. *)
C8_InterruptEndsIdle ==
  \A l \in Lanes :
    (pc[l] = "idle" /\ flag[l]) ~> (pc[l] = FirstCall(l) /\ ~flag[l])

(* The SMTP thread blocked in idle with an interrupt pending. *)
C8_Witness == pc["smtp"] = "idle" /\ flag["smtp"]

(* The last call of a round of the lane's thread before idle. *)
LastCall(lane) == IF lane = "smtp" THEN "jobs" ELSE "fetch"

(* C9: an interrupt during perform_jobs or fetch does not end that call, stays
   pending until the thread calls idle, and that idle call does not block. *)
C9_InterruptNeverLost ==
  [][\A l \in Lanes :
       /\ (pc[l] \in {"jobs", "fetch"} /\ ~flag[l] /\ flag'[l]) => pc'[l] = pc[l]
       /\ (pc[l] \in {"jobs", "fetch"} /\ flag[l] /\ ~flag'[l]) =>
            (pc[l] = LastCall(l) /\ pc'[l] = FirstCall(l))
       /\ (pc[l] # "idle" /\ pc'[l] = "idle") => ~flag[l]]_vars

(* The inbox thread interrupted while it fetches, after its perform_jobs. *)
C9_Witness == pc["inbox"] = "fetch" /\ flag["inbox"] /\ pc["smtp"] = "jobs" /\ flag["smtp"]

JobsOfLane(lane) == {i \in 1..Len(jobs) : JobLane(jobs[i].action) = lane}

IsDue(action, m) ==
  \E i \in 1..Len(jobs) :
    jobs[i].action = action /\ jobs[i].foreign_id = m /\ jobs[i].wait = 0

(* C10: a step that inserts a job for a lane leaves the lane interrupted; no
   thread is blocked in idle without a pending interrupt while a job of its lane
   is due; and with the threads running every due job is executed. *)
C10_DueJobsAreExecuted ==
  /\ [][\A l \in JobLanes :
          Cardinality(JobsOfLane(l)') > Cardinality(JobsOfLane(l)) => flag'[l]]_vars
  /\ [](\A l \in JobLanes : (pc[l] = "idle" /\ DueJobs(l) # {}) => flag[l])
  /\ \A a \in {"send_msg", "markseen", "send_mdn"}, m \in MsgIds :
       IsDue(a, m) ~> ~IsDue(a, m)

(* Both job lanes blocked in idle while the client inserts a job for each. *)
C10_Witness ==
  /\ pc["smtp"] = "idle" /\ pc["inbox"] = "idle"
  /\ DueJobs("smtp") # {} /\ DueJobs("inbox") # {}

(* C11: dc_maybe_network interrupts all four lanes and leaves every queued job
   due, with its tries and everything else as before; a due job stays due until
   the thread of its lane executes it in perform_jobs. *)
C11_NetworkSignalRetriesAtOnce ==
  /\ [][dc_maybe_network =>
          /\ \A l \in Lanes : pc[l] # "none" => flag'[l]
          /\ \A l \in JobLanes : DueJobs(l)' = JobsOfLane(l)
          /\ Len(jobs') = Len(jobs)
          /\ \A i \in 1..Len(jobs) :
               /\ jobs'[i].action = jobs[i].action
               /\ jobs'[i].foreign_id = jobs[i].foreign_id
               /\ jobs'[i].tries = jobs[i].tries
          /\ UNCHANGED <<msgs, pc>>]_vars
  /\ [][\A a \in {"send_msg", "markseen", "send_mdn"}, m \in MsgIds :
          (IsDue(a, m) /\ ~IsDue(a, m)') =>
            \E l \in JobLanes, o \in Outcomes :
              /\ ExecJob(l, o)
              /\ jobs[Min(DueJobs(l))].action = a
              /\ jobs[Min(DueJobs(l))].foreign_id = m]_vars

(* A job that failed twice is due although its backoff was longer than the one
   unit of time after which a single timer step makes a job due, and all four
   lanes are interrupted, the mvbox and the sentbox lane in idle. *)
C11_Witness ==
  /\ \E i \in 1..Len(jobs) :
       jobs[i].tries > 0 /\ jobs[i].backoff > 1 /\ jobs[i].wait = 0
  /\ \A l \in Lanes : flag[l]
  /\ pc["mvbox"] = "idle" /\ pc["sentbox"] = "idle"

(* The states of incoming messages. *)
IncomingStates == {DC_STATE_IN_FRESH, DC_STATE_IN_NOTICED, DC_STATE_IN_SEEN}

(* The jobs of the queue that belong to message m. *)
JobsOf(m) == {i \in 1..Len(jobs) : jobs[i].foreign_id = m}

(* C12 as stated: every incoming message of the set is in state seen after a
   call of dc_markseen_msgs. *)
C12_AllSeenAfterCall ==
  [][\A ids \in SUBSET MsgIds :
       dc_markseen_msgs(ids) =>
         \A m \in ids :
           msgs[m].state \in IncomingStates => msgs'[m].state = DC_STATE_IN_SEEN]_vars

(* C12 amended: after a call of dc_markseen_msgs every incoming message of the
   set that is in a real chat is seen and every contact request of the set is
   noticed; the call raises no event of a message and inserts one job for each
   message it changed to seen; a second call on the same set would change no
   state and insert no job. *)
C12_MarkSeenIdempotent ==
  [][\A ids \in SUBSET MsgIds :
       dc_markseen_msgs(ids) =>
         /\ \A m \in ids :
              /\ msgs[m].state \in IncomingStates =>
                   msgs'[m].state =
                     (IF IsRealChat(msgs[m].chat_id) THEN DC_STATE_IN_SEEN
                      ELSE IF msgs[m].state = DC_STATE_IN_SEEN THEN DC_STATE_IN_SEEN
                      ELSE DC_STATE_IN_NOTICED)
              /\ msgs[m].state \notin IncomingStates => msgs'[m] = msgs[m]
              /\ SeenState(msgs'[m].state, msgs'[m].chat_id) = msgs'[m].state
              /\ Cardinality(JobsOf(m)') - Cardinality(JobsOf(m)) =
                   (IF msgs'[m].state = DC_STATE_IN_SEEN /\ msgs[m].state # DC_STATE_IN_SEEN
                      THEN 1 ELSE 0)
         /\ \A m \in MsgIds \ ids :
              msgs'[m] = msgs[m] /\ JobsOf(m)' = JobsOf(m)
         /\ MarkseenJobs(ids, 1)' = <<>>
         /\ events' = events]_vars

(* Two seen messages of a real chat, each with its one job. *)
C12_Witness ==
  \A m \in MsgIds :
    /\ msgs[m].state = DC_STATE_IN_SEEN
    /\ IsRealChat(msgs[m].chat_id)
    /\ Cardinality(JobsOf(m)) = 1

(* The members of the chats: the contact of each chat row. *)
Membership(cs) == {[id |-> c.id, contact_id |-> c.contact_id] : c \in cs}

(* C13 as stated: archiving a chat and then unarchiving it leaves the state of
   every message as it was before. *)
C13_RoundTripKeepsStates ==
  \A c \in ChatIds :
    ArchiveMsgs(ArchiveMsgs(msgs, c, TRUE), c, FALSE) = msgs

(* C13 amended: archiving a chat and then unarchiving it puts the chat back in
   the default listing and leaves the membership of every chat and every message
   as before, except that the fresh messages of the chat are noticed afterwards;
   dc_archive_chat does just this, and unarchiving alone changes no message. *)
C13_ArchiveRoundTrip ==
  /\ [](\A c \in ChatIds :
          LET cs == ArchiveChats(ArchiveChats(chats, c, TRUE), c, FALSE)
              ms == ArchiveMsgs(ArchiveMsgs(msgs, c, TRUE), c, FALSE)
          IN /\ c \in {d.id : d \in {e \in cs : ~e.archived}}
             /\ c \notin {d.id : d \in {e \in ArchiveChats(chats, c, TRUE) : ~e.archived}}
             /\ Membership(cs) = Membership(chats)
             /\ \A m \in MsgIds :
                  /\ ms[m].chat_id = msgs[m].chat_id
                  /\ ms[m].state =
                       (IF msgs[m].chat_id = c /\ msgs[m].state = DC_STATE_IN_FRESH
                          THEN DC_STATE_IN_NOTICED ELSE msgs[m].state))
  /\ [][\A c \in ChatIds, a \in BOOLEAN :
          dc_archive_chat(c, a) =>
            /\ chats' = ArchiveChats(chats, c, a)
            /\ msgs' = ArchiveMsgs(msgs, c, a)
            /\ (c \in dc_get_chatlist') = ~a
            /\ Membership(chats') = Membership(chats)
            /\ ~a => msgs' = msgs]_vars

(* An archived chat with a message that is noticed and one that is pending. *)
C13_Witness ==
  \E c \in chats, m, n \in MsgIds :
    /\ c.archived
    /\ c.id \notin dc_get_chatlist
    /\ msgs[m] = [state |-> DC_STATE_IN_NOTICED, chat_id |-> c.id]
    /\ msgs[n] = [state |-> DC_STATE_OUT_PENDING, chat_id |-> c.id]

(* The draft messages of a chat in the given message rows. *)
DraftsOf(ms, chat_id) ==
  {m \in MsgIds : ms[m].chat_id = chat_id /\ ms[m].state = DC_STATE_OUT_DRAFT}

(* C19: every chat has at most one draft; dc_set_draft with a text message
   leaves the chat with the new message as its one draft, dc_set_draft with no
   or a non-text message leaves it with none, and the drafts of the other chats
   are as before. *)
C19_OneDraftPerChat ==
  /\ [](\A c \in ChatIds : Cardinality(DraftsOf(msgs, c)) <= 1)
  /\ [][\A c \in ChatIds, t \in BOOLEAN :
          dc_set_draft(c, t) =>
            /\ DraftsOf(msgs', c) = (IF t THEN {last_msg_id'} ELSE {})
            /\ t => last_msg_id' \notin Rows
            /\ \A d \in ChatIds \ {c} : DraftsOf(msgs', d) = DraftsOf(msgs, d)
            /\ \A m \in MsgIds \ DraftsOf(msgs, c) :
                 m # last_msg_id' \/ ~t => msgs'[m] = msgs[m]]_all_vars

(* The default draft of the group was deleted while the single chat has a draft
   of its own. *)
C19_Witness ==
  \E g \in GroupIds :
    /\ DraftsOf(msgs, g) = {}
    /\ msgs[1] = NoRow
    /\ FirstChatId \notin GroupIds
    /\ DraftsOf(msgs, FirstChatId) = {MaxMsgs}

(* The messages of a chat that were sent to its members. *)
OutboundOf(chat_id) ==
  {m \in MsgIds :
     /\ msgs[m].chat_id = chat_id
     /\ msgs[m].state \in {DC_STATE_OUT_PENDING, DC_STATE_OUT_FAILED,
                            DC_STATE_OUT_DELIVERED, DC_STATE_OUT_MDN_RCVD}}

(* The step edits group g: members, name or image change. *)
Edits(g) ==
  \E h \in groups' :
    /\ h.id = g.id
    /\ <<h.members, h.name, h.image>> # <<g.members, g.name, g.image>>

(* C20: a group is unpromoted exactly as long as no message was sent to it; an
   edit of an unpromoted group sends no status message, an edit of a promoted
   group exactly one; a promoted group stays promoted. *)
C20_UnpromotedUntilFirstMessage ==
  /\ [](\A g \in groups : g.unpromoted <=> OutboundOf(g.id) = {})
  /\ [][\A n \in Names :
          dc_create_group_chat(n) =>
            \E g \in groups' \ groups :
              g.unpromoted /\ g.members = {DC_CONTACT_ID_SELF} /\ g.status_msgs = 0]_all_vars
  /\ [][\A g \in groups :
          /\ g.id \in GroupIds'
          /\ LET h == CHOOSE r \in groups' : r.id = g.id IN
               /\ ~g.unpromoted => ~h.unpromoted
               /\ h.status_msgs - g.status_msgs =
                    (IF Edits(g) /\ ~g.unpromoted THEN 1 ELSE 0)
               /\ Edits(g) => (jobs' = jobs /\ msgs' = msgs)]_all_vars

(* A promoted group with a second member whose edits sent status messages. *)
C20_Witness ==
  \E g \in groups :
    /\ ~g.unpromoted
    /\ Bob \in g.members
    /\ g.status_msgs = MaxStatusMsgs
    /\ OutboundOf(g.id) # {}

(* The processes that are running: the queued jobs of dc_configure and dc_imex
   and the call that waits. *)
Running ==
  Cardinality({i \in 1..Len(jobs) : jobs[i].action \in ProcessJobs})
    + (IF call.kind = "none" THEN 0 ELSE 1)

(* C16: at most one ongoing process (configure, import/export,
   initiate-key-transfer) is active at any time: exactly one runs while a
   process is registered and none otherwise, and a process that is running is
   never replaced by a call that starts one. *)
C16_AtMostOneOngoingProcess ==
  /\ Running <= 1
  /\ Running = 1 <=> ongoing.kind # "none"
  /\ \A i \in 1..Len(jobs) : jobs[i].action \in ProcessJobs => ongoing.kind = jobs[i].action
  /\ call.kind # "none" => ongoing.kind = call.kind

(* C16 witness: after a first process has ended a configure runs, so a further
   dc_configure or dc_imex meets a running process. *)
C16_Witness ==
  /\ ongoing.kind = "configure"
  /\ Running = 1
  /\ Len(reports) = 1
  /\ reports[1].kind = "key_transfer"

(* The report a step appends. *)
LastReport(rs) == rs[Len(rs)]

(* C17 as stated: a stopped process reports a cancelled outcome that is
   distinct from an error and from success, that is, its value differs from
   the value a process of the same kind reports when it fails or succeeds. *)
C17_CancelledOutcomeIsDistinct ==
  \A i, j \in 1..Len(reports) :
    /\ reports[i].outcome = "stopped"
    /\ reports[j].outcome # "stopped"
    /\ reports[i].kind = reports[j].kind
    => reports[i].value # reports[j].value

(* C17, amended: dc_stop_ongoing_process only raises the stop signal and
   returns without waiting; the signalled process eventually ends; every
   process that ends reports exactly one outcome, and a stopped one reports the
   value of an error (0 or NULL), never success; after the end no process and
   no stop signal remain, so a new process can be started. *)
C17_StoppedProcessEndsAndReports ==
  /\ [][(~ongoing.stop /\ ongoing'.stop) =>
           /\ ongoing'.kind = ongoing.kind
           /\ reports' = reports /\ call' = call /\ jobs' = jobs /\ pc' = pc]_all_vars
  /\ [][(Busy /\ ~Busy') =>
           /\ Len(reports') = Len(reports) + 1
           /\ SubSeq(reports', 1, Len(reports)) = reports
           /\ LastReport(reports').kind = ongoing.kind
           /\ LastReport(reports').outcome = "stopped" =>
                /\ ongoing.stop
                /\ LastReport(reports').value \in {ProgressError, NotDone}
           /\ LastReport(reports').outcome = "ok" =>
                LastReport(reports').value \notin {ProgressError, NotDone}
           /\ ongoing' = NoProcess]_all_vars
  /\ [][reports' # reports => Busy /\ ~Busy']_all_vars
  /\ (ongoing.stop ~> ~Busy)

(* C17 witness: a process was stopped and has reported it, and a new process
   has been started afterwards. *)
C17_Witness ==
  /\ Len(reports) = 1
  /\ reports[1].outcome = "stopped"
  /\ reports[1].kind = "configure"
  /\ ongoing = [kind |-> "imex", stop |-> FALSE]

(* The jobs a call hands over to a thread. *)
HandedOver == ProcessJobs \cup {"send_msg"}

(* C18 as stated: the caller's thread waits only in the idle calls and in the
   joiner-side secure-join call, so no other call is ever found waiting. *)
C18_OnlyIdleAndJoinWait == call.kind # "none" => call.kind = "join"

(* C18, amended: dc_configure, dc_imex and the sending functions return after
   writing the store and enqueueing their job, which is still queued and not
   yet tried when the call has returned, and no thread has moved;
   dc_initiate_key_transfer, like dc_join_securejoin, waits: it returns only
   when its message is delivered or has failed or the process is stopped, and
   the setup code only when the message is delivered. *)
C18_OnlyIdleJoinAndKeyTransferWait ==
  /\ [][(Len(jobs') = Len(jobs) + 1 /\ call'.kind # "key_transfer") =>
           /\ jobs'[Len(jobs')].action \in HandedOver
           /\ jobs'[Len(jobs')].tries = 0
           /\ SubSeq(jobs', 1, Len(jobs)) = jobs
           /\ call' = call /\ pc' = pc /\ reports' = reports
           /\ events' = events /\ sent' = sent]_all_vars
  /\ [][(call.kind = "none" /\ call'.kind = "key_transfer") =>
           /\ jobs' = jobs \o SendJobs(call'.msg)
           /\ msgs'[call'.msg].state = DC_STATE_OUT_PENDING
           /\ pc' = pc /\ reports' = reports]_all_vars
  /\ [][(call.kind = "key_transfer" /\ call'.kind = "none") =>
           /\ \/ msgs[call.msg].state \in {DC_STATE_OUT_DELIVERED, DC_STATE_OUT_FAILED}
              \/ ongoing.stop
           /\ LastReport(reports').value = SetupCode =>
                msgs[call.msg].state = DC_STATE_OUT_DELIVERED]_all_vars
  /\ [][(call.kind = "join" /\ call'.kind = "none") =>
           joiner.step \in {"confirmed", "failed"} \/ ongoing.stop]_all_vars

(* C18 witness: the sending of the setup message has failed once and is to be
   retried, and dc_initiate_key_transfer is still waiting. *)
C18_Witness ==
  /\ call.kind = "key_transfer"
  /\ \E i \in SendJobsOf(call.msg) : jobs[i].tries > 0

Range(p) == {p[i] : i \in 1..Len(p)}

IsPrefix(p, q) == Len(p) <= Len(q) /\ p = SubSeq(q, 1, Len(p))

(* The progress of a completed handshake as the inviter sees it. *)
InviterSequence(proto) ==
  IF proto = "vg"
    THEN <<InviterRequestReceived, InviterAuthReceived,
           InviterMemberAddedReceived, InviterFinished>>
    ELSE <<InviterRequestReceived, InviterAuthReceived, InviterFinished>>

(* The progress of a completed handshake as the joiner sees it. *)
JoinerSequence == <<JoinerAuthSent, JoinerFinished>>

Increasing(p) == \A i, k \in 1..Len(p) : i < k => p[i] < p[k]

(* C14: the inviter's progress events of a handshake are 300, then 600, then
   800 only in the verified-group protocol, then 1000, and the joiner's are 400
   then 1000: what is reported so far is a beginning of that sequence, a
   completed handshake has reported all of it, progress never decreases and no
   value is reported twice. *)
C14_ProgressSequences ==
  /\ inviter.proto \in Protocols => IsPrefix(inviter.progress, InviterSequence(inviter.proto))
  /\ inviter.proto \notin Protocols => inviter.progress = <<>>
  /\ InviterFinished \in Range(inviter.progress) =>
       inviter.progress = InviterSequence(inviter.proto)
  /\ IsPrefix(joiner.progress, JoinerSequence)
  /\ (joiner.step = "confirmed" \/ JoinerFinished \in Range(joiner.progress)) =>
       joiner.progress = JoinerSequence
  /\ Increasing(inviter.progress)
  /\ Increasing(joiner.progress)

(* C14 witness: a verified-group handshake is completed on the inviter's side
   and the handshake of the joiner's side is confirmed. *)
C14_Witness ==
  /\ inviter.proto = "vg"
  /\ inviter.progress = InviterSequence("vg")
  /\ joiner.step = "confirmed"
  /\ joiner.progress = JoinerSequence

(* C15: the joiner-side call never hangs: once the stop signal is raised while
   dc_join_securejoin waits, whether or not the inviter's messages arrive, the
   call eventually returns; a call that returns before the handshake is
   confirmed, stopped or failed, returns the not-joined result 0, and a chat id
   is returned only for a confirmed handshake, the id of the joined chat. *)
C15_JoinNeverHangs ==
  /\ ((call.kind = "join" /\ ongoing.stop) ~> call.kind = "none")
  /\ [][(call.kind = "join" /\ call'.kind = "none") =>
           /\ LastReport(reports').kind = "join"
           /\ joiner.step # "confirmed" => LastReport(reports').value = NotDone
           /\ LastReport(reports').outcome = "stopped" =>
                LastReport(reports').value = NotDone
           /\ LastReport(reports').value # NotDone =>
                /\ joiner.step = "confirmed"
                /\ \E c \in chats' : c.id = LastReport(reports').value
                                    /\ c.contact_id = Bob]_all_vars

(* C15 witness: the call was stopped while it waited for the confirmation of
   the inviter and has returned 0. *)
C15_Witness ==
  /\ call.kind = "none"
  /\ joiner.progress = <<JoinerAuthSent>>
  /\ Len(reports) = 1
  /\ reports[1] = [kind |-> "join", outcome |-> "stopped", value |-> NotDone]

(* What a mark-noticed call never does: no message becomes seen and no job is
   inserted or removed. *)
NoticedOnly ==
  /\ jobs' = jobs
  /\ \A m \in MsgIds :
       msgs'[m].state = DC_STATE_IN_SEEN => msgs[m].state = DC_STATE_IN_SEEN

(* C28: after dc_marknoticed_chat no message of the chat is fresh, and after
   dc_marknoticed_contact no message of the sender, in the deaddrop or in a
   chat; a mark-noticed call sets no message to seen and inserts no job; a
   message becomes seen only in a call of dc_markseen_msgs that names it. *)
C28_FreshUntilNoticedSeenOnlyByMarkSeen ==
  /\ [][\A c \in ChatIds :
          dc_marknoticed_chat(c) =>
            /\ \A m \in MsgIds :
                 msgs'[m].chat_id = c => msgs'[m].state # DC_STATE_IN_FRESH
            /\ NoticedOnly]_vars
  /\ [][dc_marknoticed_contact(Bob) =>
          /\ \A m \in MsgIds : msgs'[m].state # DC_STATE_IN_FRESH
          /\ NoticedOnly]_vars
  /\ [][\A m \in MsgIds :
          (msgs'[m].state = DC_STATE_IN_SEEN /\ msgs[m].state # DC_STATE_IN_SEEN) =>
            \E ids \in SUBSET MsgIds : m \in ids /\ dc_markseen_msgs(ids)]_vars

(* C28 witness: a contact request was marked noticed by its sender and has no
   job, and a message of the chat created afterwards was marked seen. *)
C28_Witness ==
  /\ msgs[1].state = DC_STATE_IN_NOTICED
  /\ JobsOf(1) = {}
  /\ sent[1] = 0
  /\ msgs[2].state = DC_STATE_IN_SEEN
  /\ IsRealChat(msgs[2].chat_id)

(* The contact requests: the incoming messages that are in no real chat. *)
ContactRequests ==
  {m \in MsgIds : msgs[m].state \in IncomingStates /\ ~IsRealChat(msgs[m].chat_id)}

(* C29: dc_markseen_msgs sets a contact request it names to noticed, not to
   seen, leaves it in the deaddrop and inserts no job for it; so a contact
   request is never seen and never has a mark-seen or read-receipt job. *)
C29_MarkSeenOfContactRequest ==
  /\ [][\A ids \in SUBSET MsgIds :
          dc_markseen_msgs(ids) =>
            \A m \in ids \cap ContactRequests :
              /\ msgs'[m].state = DC_STATE_IN_NOTICED
              /\ msgs'[m].chat_id = msgs[m].chat_id
              /\ JobsOf(m)' = {}]_vars
  /\ [](\A m \in ContactRequests :
          msgs[m].state # DC_STATE_IN_SEEN /\ JobsOf(m) = {})

(* C29 witness: both messages are contact requests, the first is noticed and
   the second, which arrived later, still fresh, and no job is queued. *)
C29_Witness ==
  /\ ContactRequests = MsgIds
  /\ msgs[1].state = DC_STATE_IN_NOTICED
  /\ msgs[2].state = DC_STATE_IN_FRESH
  /\ jobs = <<>>

(* C30: a message in state preparing has no SMTP job, was never dispatched and
   has raised no event; it leaves that state only in a call of dc_send_msg,
   which makes it pending, appends its one SMTP job and interrupts the SMTP
   lane. *)
C30_PreparingIsNotDispatched ==
  /\ [](\A m \in MsgIds :
          msgs[m].state = DC_STATE_OUT_PREPARING =>
            SendJobsOf(m) = {} /\ sent[m] = 0 /\ events[m] = <<>>)
  /\ [][\A m \in MsgIds :
          (msgs[m].state = DC_STATE_OUT_PREPARING /\ msgs'[m] # msgs[m]) =>
            /\ dc_send_msg(msgs[m].chat_id, m)
            /\ msgs'[m] = [msgs[m] EXCEPT !.state = DC_STATE_OUT_PENDING]
            /\ jobs' = Append(jobs, NewJob("send_msg", m))
            /\ pc["smtp"] # "none" => flag'["smtp"]]_vars

(* C30 witness: the first message is still being prepared while a message
   sent after it is already delivered. *)
C30_Witness ==
  /\ msgs[1].state = DC_STATE_OUT_PREPARING
  /\ msgs[2].state = DC_STATE_OUT_DELIVERED
  /\ sent[2] = 1

(* The chat rows of normal chats: the chats with a single contact. *)
NormalChats == {c \in chats : c.contact_id # 0}

(* C21: no two normal chats have the same contact. dc_create_chat_by_msg_id
   creates no chat if the message belongs to a chat already or a chat with its
   contact exists, and the message is in that chat afterwards; else it creates
   exactly one chat, with the contact of the message, and moves the message
   and every other message of that contact that is in the deaddrop into it;
   all other messages stay where they are. *)
C21_NoSecondChatWithContact ==
  /\ [](\A c, d \in NormalChats : c.contact_id = d.contact_id => c = d)
  /\ [](\A c, d \in chats : c.id = d.id => c = d)
  /\ [][\A m \in MsgIds :
          dc_create_chat_by_msg_id(m) =>
            /\ IsRealChat(msgs'[m].chat_id)
            /\ IF IsRealChat(msgs[m].chat_id)
                    \/ \E c \in chats : c.contact_id = sender[m]
                 THEN chats' = chats
                 ELSE \E row \in chats' \ chats :
                        /\ chats' = chats \cup {row}
                        /\ row.contact_id = sender[m]
                        /\ row.id = msgs'[m].chat_id
                        /\ row.id \notin ChatIds
            /\ \A c \in chats' : c.id = msgs'[m].chat_id =>
                 c.contact_id = sender[m]
            /\ \A k \in MsgIds :
                 IF msgs[k].chat_id = DC_CHAT_ID_DEADDROP /\ sender[k] = sender[m]
                   THEN msgs'[k] = [msgs[k] EXCEPT !.chat_id = msgs'[m].chat_id]
                   ELSE msgs'[k] = msgs[k]]_all_vars

(* C21 witness: the chat with Bob was created from his contact request and
   took it over, and the contact request of Carol is still in the deaddrop. *)
C21_Witness ==
  /\ sender[1] = Bob /\ IsRealChat(msgs[1].chat_id)
  /\ sender[2] = Carol /\ msgs[2].chat_id = DC_CHAT_ID_DEADDROP
  /\ Cardinality(chats) = 1

(* The rows of a mailbox, however its address was written. *)
RowsOf(rows, mailbox) == {r \in rows : r.addr.mailbox = mailbox}

(* C22: there is at most one contact row per mailbox, whatever way its address
   was written in dc_create_contact, in an address book, in a message or in a
   QR code, and no two rows share an id; dc_create_contact for an address that
   exists keeps the id of its row, updates the name given and the origin and
   adds no row; for a new address it adds exactly one row. *)
C22_OneContactPerAddress ==
  /\ [](\A r, q \in contacts :
          (r.addr.mailbox = q.addr.mailbox \/ r.id = q.id) => r = q)
  /\ [][\A name \in ContactNames, addr \in Addrs :
          dc_create_contact(name, addr) =>
            /\ Cardinality(RowsOf(contacts', addr.mailbox)) = 1
            /\ \A r \in RowsOf(contacts, addr.mailbox) :
                 /\ Cardinality(contacts') = Cardinality(contacts)
                 /\ \E q \in contacts' :
                      /\ q.id = r.id
                      /\ q.addr.mailbox = addr.mailbox
                      /\ q.origin = "manual"
                      /\ q.name = (IF name = "" THEN r.name ELSE name)
            /\ RowsOf(contacts, addr.mailbox) = {} =>
                 Cardinality(contacts') = Cardinality(contacts) + 1
            /\ \A r \in contacts :
                 r.addr.mailbox # addr.mailbox => r \in contacts']_all_vars
  /\ [][\A r \in contacts : \E q \in contacts' :
          q.id = r.id /\ q.addr.mailbox = r.addr.mailbox]_all_vars

(* C22 witness: the contact that was added first, by a message, has got its
   name from the user later, when a second contact existed already. *)
C22_Witness ==
  \E r, q \in contacts :
    /\ r.id < q.id
    /\ r.origin = "manual" /\ r.name = "Robert"
    /\ q.origin = "incoming"

(* Whether the seconds given in the last dc_send_locations_to_chat of the chat
   have not elapsed yet. *)
Streaming(chat_id) ==
  /\ stream_log[chat_id].seconds > 0
  /\ stream_log[chat_id].elapsed < stream_log[chat_id].seconds

(* C23: location streaming is enabled for a chat exactly while the seconds
   given in the last dc_send_locations_to_chat of the chat have not elapsed, so
   it is disabled again after N seconds without a disable call, and it does
   get disabled as time passes; dc_set_location returns 1 exactly if streaming
   is enabled for at least one chat at the time of the call, else 0. *)
C23_StreamingEndsAfterSeconds ==
  /\ [](\A c \in StreamChats : dc_is_sending_locations_to_chat(c) <=> Streaming(c))
  /\ [][dc_set_location =>
          located'.still = (IF \E c \in StreamChats : Streaming(c) THEN 1 ELSE 0)]_all_vars
  /\ \A c \in StreamChats :
       (stream_log[c].seconds > 0) ~> ~dc_is_sending_locations_to_chat(c)

(* C23 witness: streaming was enabled for one chat for two seconds and never
   disabled, the two seconds have elapsed, and dc_set_location has just
   returned 0. *)
C23_Witness ==
  /\ stream_log[FirstChatId] = [seconds |-> MaxSeconds, elapsed |-> MaxSeconds]
  /\ stream_log[FirstChatId + 1].seconds = 0
  /\ located = [called |-> TRUE, still |-> 0]

(* The states of a lot returned by dc_check_qr. *)
QrStates ==
  {DC_QR_ASK_VERIFYCONTACT, DC_QR_ASK_VERIFYGROUP, DC_QR_FPR_OK,
   DC_QR_FPR_MISMATCH, DC_QR_FPR_WITHOUT_ADDR, DC_QR_ADDR, DC_QR_TEXT,
   DC_QR_URL, DC_QR_ERROR}

(* C24: for every scanned text dc_check_qr returns a lot, with one of the nine
   states; a text that begins with no recognized scheme is plain text, and so
   is a text of a scheme that carries neither fingerprint nor address unless
   it is a URL. *)
C24_QrClassifierIsTotal ==
  /\ [][lot' # lot =>
          Len(lot') = 1 /\ lot'[1].qr \in QrTexts /\ lot'[1].state \in QrStates]_all_vars
  /\ [](\A i \in 1..Len(lot) :
          /\ lot[i].state \in QrStates
          /\ lot[i].qr.scheme = "" => lot[i].state = DC_QR_TEXT
          /\ lot[i].state = DC_QR_TEXT => lot[i].qr.scheme \in {"", "OPENPGP4FPR:"} \cup AddrSchemes
          /\ lot[i].state = DC_QR_URL <=> lot[i].qr.scheme \in {"http://", "https://"})

(* C24 witness: a text without scheme that looks like the rest of a
   verification code was scanned and is plain text. *)
C24_Witness ==
  /\ Len(lot) = 1
  /\ lot[1].state = DC_QR_TEXT
  /\ lot[1].qr = [scheme |-> "", fpr |-> "full", addr |-> "good", invite |-> TRUE,
                  group |-> TRUE, key |-> "same"]

(* C26: of the network errors of a run of consecutive failures only the first
   has data1 = 1; every following one has data1 = 0 until an action succeeds. *)
C26_OnlyFirstNetworkErrorIsReported ==
  \A i \in 1..Len(net_log) :
    ~net_log[i].ok =>
      /\ net_log[i].event = DC_EVENT_ERROR_NETWORK
      /\ net_log[i].data1 = (IF i = 1 \/ net_log[i - 1].ok THEN 1 ELSE 0)

(* C26 witness: two runs of failures, each of more than one failure, with a
   success between them. *)
C26_Witness ==
  /\ Len(net_log) = 5
  /\ [i \in 1..5 |-> net_log[i].ok] = <<FALSE, FALSE, TRUE, FALSE, FALSE>>
  /\ [i \in 1..5 |-> net_log[i].data1] = <<1, 0, 0, 1, 0>>

(* C27: of two incoming messages of the same chat, the one projected later
   (the one with the larger id) has a timestamp_sort not smaller than the one
   projected earlier, whatever their timestamp_sent; a message projected into a
   chat has the largest timestamp_sort of the chat's incoming messages. *)
C27_SortTimestampKeepsArrivalOrder ==
  /\ [][\A c \in Contacts, t \in 0..MaxTime :
          ReceiveMsgAt("inbox", c, t) =>
            \A m \in Rows :
              sender[m] # 0 /\ msgs[m].chat_id = msgs'[last_msg_id'].chat_id
                => times'[last_msg_id'].sort >= times[m].sort]_all_vars
  /\ [](\A m1, m2 \in Rows :
          /\ sender[m1] # 0 /\ sender[m2] # 0
          /\ msgs[m1].chat_id = msgs[m2].chat_id
          /\ m1 < m2
          => times[m1].sort <= times[m2].sort)

(* C27 witness: the second message of a chat was sent before the first one and
   is sorted after it. *)
C27_Witness ==
  \E m1, m2 \in Rows :
    /\ sender[m1] # 0 /\ sender[m2] # 0
    /\ IsRealChat(msgs[m1].chat_id)
    /\ msgs[m1].chat_id = msgs[m2].chat_id
    /\ m1 < m2
    /\ times[m2].sent < times[m1].sent
    /\ times[m2].sort > times[m1].sort

(* C25: a failure of sending that is not a transient one raises one failure
   event for the message and is recorded in the rows: the message is failed and
   has no send job; closing and opening the database again changes no row and
   raises no event, and no later step raises an event for a message that is
   failed already. *)
C25_FailureIsReportedOnceAcrossRestart ==
  /\ [][Reopen => msgs' = msgs /\ jobs' = jobs /\ events' = events]_all_vars
  /\ [][\A m \in MsgIds :
          msgs[m].state = DC_STATE_OUT_FAILED => events'[m] = events[m]]_all_vars
  /\ [](\A m \in MsgIds :
          /\ Cardinality(EventsOf(m, DC_EVENT_MSG_FAILED)) <= 1
          /\ EventsOf(m, DC_EVENT_MSG_FAILED) # {}
               <=> msgs[m].state = DC_STATE_OUT_FAILED
          /\ msgs[m].state = DC_STATE_OUT_FAILED => SendJobsOf(m) = {})

(* C25 witness: a message was failed when the database was opened again; after
   that the threads ran, another message failed, and the first message still has
   its one failure event. *)
C25_Witness ==
  /\ reopened.count > 0
  /\ pc["smtp"] = "idle"
  /\ \E m \in reopened.failed, m2 \in Failed \ reopened.failed :
       /\ Cardinality(EventsOf(m, DC_EVENT_MSG_FAILED)) = 1
       /\ Cardinality(EventsOf(m2, DC_EVENT_MSG_FAILED)) = 1

(* The verified groups. *)
VerifiedGroups == {g \in groups : g.id \in verified_ids.chats}

(* C31: all members of a verified group other than SELF are verified contacts;
   dc_add_contact_to_chat of an unverified contact to a verified group changes
   no group; in the verified-group protocol the inviter reports the
   acknowledgement (800) only when the joining contact is verified. *)
C31_VerifiedGroupHasVerifiedMembers ==
  /\ [](\A g \in VerifiedGroups :
          g.members \ {DC_CONTACT_ID_SELF} \subseteq verified_ids.contacts)
  /\ [][\A c \in ChatIds, k \in Contacts :
          (dc_add_contact_to_chat(c, k) /\ c \in verified_ids.chats
             /\ k \notin verified_ids.contacts) => groups' = groups]_all_vars
  /\ [](InviterMemberAddedReceived \in Range(inviter.progress)
          => inviter.proto = "vg" /\ Joining \in verified_ids.contacts)

(* C31 witness: the joining contact was verified and added to the verified
   group by the handshake, which was acknowledged; the unverified contact is
   no member. *)
C31_Witness ==
  /\ \E g \in VerifiedGroups : g.members = {DC_CONTACT_ID_SELF, Joining}
  /\ InviterMemberAddedReceived \in Range(inviter.progress)
  /\ verified_ids.contacts = {Joining}

(* C32: a job in progress is a queued job of the lane that took it and is in
   progress in no other lane; perform_jobs takes only a job that is not in
   progress; no row is deleted twice, and a deleted row is neither queued nor in
   progress. *)
C32_JobIsExecutedByOneWorker ==
  /\ [](\A l1, l2 \in JobLanes :
          work.running[l1] # 0 =>
            /\ l1 # l2 => work.running[l2] # work.running[l1]
            /\ \E i \in 1..Len(work.queue) :
                 work.queue[i] = [id |-> work.running[l1], lane |-> l1])
  /\ [][\A l \in JobLanes :
          TakeJob(l) => work'.running[l] \notin InProgress]_all_vars
  /\ [](\A i, j \in 1..Len(work.deleted) :
          /\ i # j => work.deleted[i] # work.deleted[j]
          /\ work.deleted[i] \notin InProgress
          /\ \A k \in 1..Len(work.queue) : work.queue[k].id # work.deleted[i])

(* C32 witness: both lanes have a job in progress after another job was
   deleted. *)
C32_Witness ==
  /\ work.running["inbox"] # 0
  /\ work.running["smtp"] # 0
  /\ Len(work.deleted) = 1

(* C33: a step of perform_jobs executes the oldest job of its lane that does
   not wait, changes or removes that row only and keeps every other row, also
   the waiting ones before it; perform_jobs returns only when no job of the
   lane is due and leaves the waiting rows queued. *)
C33_RoundExecutesDueJobsInOrder ==
  /\ [][\A l \in JobLanes, o \in Outcomes :
          ExecJob(l, o) =>
            \E i \in 1..Len(jobs) :
              /\ JobLane(jobs[i].action) = l
              /\ jobs[i].wait = 0
              /\ \A k \in 1..(i - 1) :
                   JobLane(jobs[k].action) = l => jobs[k].wait > 0
              /\ i > Len(jobs') \/ jobs'[i] # jobs[i]
              /\ \A k \in 1..(i - 1) : jobs'[k] = jobs[k]
              /\ \A k \in (i + 1)..Len(jobs) :
                   \E k2 \in {k - 1, k} : k2 <= Len(jobs') /\ jobs'[k2] = jobs[k]]_vars
  /\ [][\A l \in JobLanes :
          JobsDone(l) =>
            /\ jobs' = jobs
            /\ \A i \in 1..Len(jobs) :
                 JobLane(jobs[i].action) = l => jobs[i].wait > 0]_vars

(* C33 witness: the send job of the first message waits for its retry while the
   job of the second message, inserted after it, was executed. *)
C33_Witness ==
  /\ \E i \in 1..Len(jobs) :
       jobs[i].action = "send_msg" /\ jobs[i].foreign_id = 1 /\ jobs[i].wait > 0
  /\ msgs[2].state = DC_STATE_OUT_DELIVERED

(* The changes of call of a lane's thread in the loops of startThreads; a
   thread whose idle returns at once goes from its last call to its first. *)
LoopSteps ==
  { <<"inbox", "jobs", "fetch">>, <<"inbox", "fetch", "idle">>,
    <<"inbox", "idle", "jobs">>, <<"inbox", "fetch", "jobs">>,
    <<"mvbox", "fetch", "idle">>, <<"mvbox", "idle", "fetch">>,
    <<"sentbox", "fetch", "idle">>, <<"sentbox", "idle", "fetch">>,
    <<"smtp", "jobs", "idle">>, <<"smtp", "idle", "jobs">> }

(* C34: the thread of a lane is in one call at a time and goes from call to
   call in the order of its loop: inbox perform_jobs, fetch, idle; mvbox and
   sentbox fetch, idle; SMTP perform_jobs, idle; the SMTP thread never
   fetches and the mvbox and sentbox threads never perform jobs. *)
C34_LanesCycleInFixedOrder ==
  /\ [][\A l \in Lanes :
          pc'[l] # pc[l] => <<l, pc[l], pc'[l]>> \in LoopSteps]_vars
  /\ [](/\ pc["inbox"] \in {"jobs", "fetch", "idle"}
        /\ pc["mvbox"] \in {"fetch", "idle"}
        /\ pc["sentbox"] \in {"fetch", "idle"}
        /\ pc["smtp"] \in {"jobs", "idle"})

(* C34 witness: the message was sent and received its read receipt, and all four
   threads are blocked in idle. *)
C34_Witness ==
  /\ \A l \in Lanes : pc[l] = "idle" /\ ~flag[l]
  /\ msgs[1].state = DC_STATE_OUT_MDN_RCVD

(* The calls of start() and stop() were made one after the other, all have
   returned, and the last one was start(). *)
EndedWithStart ==
  /\ \A c \in Callers : callers[c].op = "none"
  /\ called # <<>>
  /\ \A i \in 1..Len(called) : called[i].alone
  /\ called[Len(called)].op = "start"

(* C35 as stated: after calls of start() and stop() that end with start(),
   every lane has a live worker thread. *)
C35_StartLeavesWorkerOnEveryLane ==
  EndedWithStart => \A l \in Lanes : isAlive(l, thread_field[l])

(* What holds in place of C35: startThreads leaves a lane with a live thread in its field and
   changes no thread that exists, so it does not clear an interruption; after
   calls that end with start() a lane has a live thread that is not interrupted
   unless stop() was called before and the lane's thread was still alive when
   start() came to it: that thread is interrupted and returns at its next
   loop-top check, and the lane is without worker from then on. *)
C35_StartKeepsInterruptedThread ==
  /\ [][\A c \in Callers :
          startThreads(c) =>
            LET lane == LaneOrder[callers[c].lane] IN
              /\ thread_field'[lane] # 0
              /\ thread_state'[lane][thread_field'[lane]].at \notin {"new", "dead"}
              /\ \A g \in 1..MaxGen :
                   thread_state[lane][g].at # "new" =>
                     thread_state'[lane][g] = thread_state[lane][g]]_all_vars
  /\ [](EndedWithStart =>
          \A l \in Lanes :
            \/ /\ isAlive(l, thread_field[l])
               /\ ~thread_state[l][thread_field[l]].interrupted
            \/ /\ \E i \in 1..Len(called) : called[i].op = "stop"
               /\ thread_field[l] = 1
               /\ \/ thread_state[l][1].at = "dead"
                  \/ thread_state[l][1].interrupted)

(* C35 witness: stop() and then start() were called; the inbox thread had
   returned before start() and was created anew, the SMTP thread was still in
   its loop then and has returned since: the SMTP lane has no worker. *)
C35_Witness ==
  /\ EndedWithStart
  /\ Len(called) = 2
  /\ called[1].op = "stop"
  /\ thread_field["inbox"] = 2
  /\ isAlive("inbox", 2)
  /\ thread_field["smtp"] = 1
  /\ thread_state["smtp"][1].at = "dead"

(* C36: at most one thread of a lane is alive at any time, and startThreads
   sets the field of a lane to a new thread only if the field is null or its
   thread is not alive. *)
C36_OneLiveThreadPerLane ==
  /\ [](\A l \in Lanes : Cardinality({g \in 1..MaxGen : isAlive(l, g)}) <= 1)
  /\ [][\A l \in Lanes :
          thread_field'[l] # thread_field[l] =>
            /\ thread_field[l] = 0 \/ thread_state[l][thread_field[l]].at = "dead"
            /\ isAlive(l, thread_field[l])']_all_vars

(* C36 witness: while one client thread is in start() and the other in stop(),
   the first thread of a lane has returned and its second thread is alive. *)
C36_Witness ==
  /\ \E c, d \in Callers : callers[c].op = "start" /\ callers[d].op = "stop"
  /\ \E l \in Lanes : thread_state[l][1].at = "dead" /\ isAlive(l, 2)

(* C37: stopThreads changes only interruption flags: no thread changes its
   place, so a call that is running, also a blocked idle, goes on; a thread that
   finds itself interrupted at the top of its loop returns, and a thread that
   has returned makes no call again. *)
C37_StopOnlyInterrupts ==
  /\ [][\A c \in Callers, g \in 0..MaxGen :
          stopThreads(c, g) =>
            /\ thread_field' = thread_field
            /\ \A l \in Lanes, h \in 1..MaxGen :
                 /\ thread_state'[l][h].at = thread_state[l][h].at
                 /\ thread_state[l][h].interrupted => thread_state'[l][h].interrupted]_all_vars
  /\ [][\A l \in Lanes, g \in 1..MaxGen :
          /\ (LoopTop(l, g) /\ thread_state[l][g].interrupted)
               => thread_state'[l][g].at = "dead"
          /\ thread_state[l][g].at = "dead" => thread_state'[l][g].at = "dead"
          /\ (thread_state[l][g].at \in {"jobs", "fetch", "idle"}
                /\ thread_state'[l][g].at # thread_state[l][g].at)
               => thread_state'[l][g].at = NextInLoop(l, thread_state[l][g].at)]_all_vars

(* C37 witness: stop() has returned; the inbox thread, interrupted while blocked
   in idle, is still in idle, and the SMTP thread has returned. *)
C37_Witness ==
  /\ \A c \in Callers : callers[c].op = "none"
  /\ Len(called) = 1
  /\ called[1].op = "stop"
  /\ thread_state["inbox"][1] = [at |-> "idle", interrupted |-> TRUE]
  /\ thread_state["smtp"][1].at = "dead"

(* The first onActivityStopped received. *)
FirstStop(i) ==
  /\ lifecycle[i].callback = "onActivityStopped"
  /\ \A j \in 1..(i - 1) : lifecycle[j].callback # "onActivityStopped"

(* C38: for every sequence of onActivityStarted and onActivityStopped,
   activityCounter is never negative, and isForeground() is true exactly when
   isBackground() is false. *)
C38_CounterIsNeverNegative ==
  /\ activityCounter >= 0
  /\ isForeground <=> ~isBackground

(* C38 witness: two activities were stopped one after the other, the second
   stop came with the counter at 0. *)
C38_Witness ==
  /\ Len(lifecycle) >= 2
  /\ lifecycle[1].callback = "onActivityStopped"
  /\ lifecycle[2].callback = "onActivityStopped"
  /\ lifecycle[1].counter = 0
  /\ activityCounter = 0

(* C39 as stated: every onActivityStarted notifies onForeground, an
   onActivityStopped notifies onBackground exactly when the counter is 0 after
   it, and the first onActivityStopped after construction notifies
   onBackground. *)
C39_FirstStopReportsBackground ==
  \A i \in 1..Len(lifecycle) :
    /\ lifecycle[i].callback = "onActivityStarted"
         => lifecycle[i].notified = <<"onForeground">>
    /\ lifecycle[i].callback = "onActivityStopped"
         => (lifecycle[i].notified = <<"onBackground">> <=> lifecycle[i].counter = 0)
    /\ FirstStop(i) => lifecycle[i].notified = <<"onBackground">>

(* C39 amended: every onActivityStarted notifies onForeground and nothing
   else; an onActivityStopped notifies onBackground exactly when the counter
   is 0 after it, also when the counter was 0 before; the counter starts at 1,
   and the first onActivityStopped notifies onBackground exactly when no
   onActivityStarted came before it. *)
C39_StopReportsBackgroundAtZero ==
  /\ [][LET notified == lifecycle'[Len(lifecycle')].notified IN
          /\ onActivityStarted => notified = <<"onForeground">>
          /\ onActivityStopped =>
               notified = (IF activityCounter' = 0 THEN <<"onBackground">> ELSE <<>>)
          /\ (onActivityStopped /\ activityCounter = 0) =>
               notified = <<"onBackground">>]_all_vars
  /\ [](lifecycle = <<>> => activityCounter = 1)
  /\ [](\A i \in 1..Len(lifecycle) :
          FirstStop(i) => (lifecycle[i].notified = <<"onBackground">> <=> i = 1))

(* C39 witness: an activity was started and one was stopped, which left the
   counter at 1 and notified nothing; the next stop notified onBackground, and
   so did the stop after it, received with the counter at 0. *)
C39_Witness ==
  /\ Len(lifecycle) = 4
  /\ lifecycle[1].callback = "onActivityStarted"
  /\ lifecycle[2] = [callback |-> "onActivityStopped", notified |-> <<>>, counter |-> 1]
  /\ lifecycle[3] = [callback |-> "onActivityStopped", notified |-> <<"onBackground">>,
                     counter |-> 0]
  /\ lifecycle[4] = [callback |-> "onActivityStopped", notified |-> <<"onBackground">>,
                     counter |-> 0]

(* C40 as stated: for every method handled by handleContextCalls and every
   argument map, the handler invokes the result callback exactly once. *)
C40_ResultIsInvokedOnce ==
  \A i \in 1..Len(method_calls) : Len(method_calls[i].results) = 1

(* What holds in place of C40: setConfig, the reading of an integer
   configuration, IS_CONFIGURED and STOP_ONGOING_PROCESS invoke the callback
   once whatever the arguments are, and so does the reading of a string
   configuration unless the value is empty. *)
C40_ResultIsInvokedOnceByConfigCalls ==
  \A i \in 1..Len(method_calls) :
    LET c == method_calls[i] IN
      (\/ c.method \in {"CONFIG_SET", "CONFIG_GET_INT", "IS_CONFIGURED",
                         "STOP_ONGOING_PROCESS"}
       \/ c.method = "CONFIG_GET" /\ (c.value # "" \/ c.arguments # "complete"))
        => Len(c.results) = 1

(* C40 witness: a string configuration with an empty value was read with a
   complete argument map and the callback was invoked twice; then
   CREATE_CHAT_MESSAGE was called with a complete argument map and the
   callback was not invoked. *)
C40_Witness ==
  /\ Len(method_calls) = 2
  /\ method_calls[1].method = "CONFIG_GET"
  /\ method_calls[1].arguments = "complete"
  /\ method_calls[1].results = <<"nil", "value">>
  /\ method_calls[2].method = "CREATE_CHAT_MESSAGE"
  /\ method_calls[2].arguments = "complete"
  /\ method_calls[2].results = <<>>
====
